---- MODULE Spec2Model ----
(***************************************************************************)
(* Candle ingestion pipeline of ai-trading-bot: the per-symbol websocket   *)
(* collector (services/collector), the batching persister                  *)
(* (services/processor) and the windowed reconciler                        *)
(* (scripts/ccxt_daily_maintenance.py).                                    *)
(*                                                                         *)
(* Strings that the code concatenates or takes apart are sequences of      *)
(* tokens: the symbol "BTC-USDT-SWAP" is <<"BTC-USDT-SWAP">>, the map key  *)
(* f"{symbol}_task" is the symbol with the token "_task" appended, and the *)
(* channel "candle4H" is <<"candle", "4H">>.                               *)
(***************************************************************************)
EXTENDS Integers, Sequences, FiniteSets, TLC

\* ------------------------------------------------------------------ bounds
\* Longest envelope sequence replayed through the upsert.
MaxTraceLen == 3
\* How many times the sequence is replayed.
MaxReplays == 2
\* Data events the venue sends on one worker's stream.
MaxMsgs == 2

\* Worker objects the supervisor may construct.
MaxWorkers == 3
\* Reconnect rounds of one worker (reconnect_count is unbounded in the code).
MaxReconnects == 8
\* Commands the gateway publishes.
MaxCommands == 4
\* Reconnect rounds of a worker under the supervisor.
SupReconnects == 1
\* hours_back of a reconciliation pass (25 by default).
HoursBack == 25

\* ------------------------------------------------- settings (config.py)
INITIAL_RECONNECT_DELAY == 5
MAX_RECONNECT_DELAY == 300
\* BATCH_SIZE is a setting (default 100); the model runs the persister with
\* a batch size small enough for a batch to fill up.
BATCH_SIZE == 2
MAX_RETRIES == 3

None == "None"
\* An absent key of the supervisor's dict.
Absent == [kind |-> "none", id |-> 0]

\* ------------------------------------------------------------ data model
BTC == <<"BTC-USDT-SWAP">>

\* Two candle open times of the 4h timeframe, in ms (relative epoch).
T1 == 4 * 3600 * 1000
T2 == 8 * 3600 * 1000
Timestamps == {T1, T2}

\* [open, high, low, close, volume] samples: two valid candles, one whose
\* high is below its low, one without volume, one without a close price.
SampleA == [open |-> 1, high |-> 2, low |-> 1, close |-> 2, volume |-> 1]
SampleB == [open |-> 2, high |-> 2, low |-> 1, close |-> 1, volume |-> 2]
SampleHL == [open |-> 1, high |-> 1, low |-> 2, close |-> 1, volume |-> 1]
SampleV0 == [open |-> 1, high |-> 2, low |-> 1, close |-> 2, volume |-> 0]
SampleC0 == [open |-> 1, high |-> 1, low |-> 0, close |-> 0, volume |-> 1]
\* What the venue's REST API may answer for a candle.
OracleSamples == {SampleA, SampleHL}

\* The envelope the collector pushes (processed_data); retry_count 0 stands
\* for the absent key, read as item.get("retry_count", 0).
Envelope(sym, tf, ts, s) ==
    [symbol |-> sym, timeframe |-> tf, timestamp |-> ts,
     open |-> s.open, high |-> s.high, low |-> s.low, close |-> s.close,
     volume |-> s.volume, confirm |-> TRUE, retry_count |-> 0]

\* A candle array of a data event:
\* [ts, o, h, l, c, vol, volCcy, volCcyQuote, confirm].
Wire(ts, s, confirm) ==
    <<ts, s.open, s.high, s.low, s.close, s.volume, 0, 0, confirm>>

\* The fields of a candle array are texts; a text that is a number is
\* written as that number, a text that float() and int() reject as
\* NonNumeric.
NonNumeric == 0 - 1

\* What the venue may send: confirmed candles, provisional ones (confirm
\* "0") whose values differ from every confirmed candle of the same open
\* time, candles the validation rejects, an array that is too short and
\* an array whose volume is not a number.
WireCandles ==
    {Wire(T1, SampleA, "1"), Wire(T2, SampleA, "1"), Wire(T2, SampleHL, "1"),
     Wire(T1, SampleB, "0"), Wire(T2, SampleB, "0"),
     Wire(T1, SampleV0, "1"), Wire(T2, SampleC0, "1"),
     SubSeq(Wire(T1, SampleA, "1"), 1, 8),
     Wire(T1, [SampleA EXCEPT !.volume = NonNumeric], "1")}

\* The candles among them that the collector has to keep off the queue.
Rejectable ==
    {c \in WireCandles : Len(c) < 9 \/ c[9] # "1" \/ c[6] <= 0 \/ c[5] <= 0}

\* _convert_timeframe_to_okx_format: mapping.get(timeframe, timeframe).
ConvertTimeframeToOkxFormat(tf) ==
    CASE tf = "1m" -> "1m"
      [] tf = "5m" -> "5m"
      [] tf = "15m" -> "15m"
      [] tf = "1h" -> "1H"
      [] tf = "4h" -> "4H"
      [] tf = "1d" -> "1D"
      [] OTHER -> tf

\* subscribe_channels: the channel f"candle{okx_timeframe}" of a default
\* timeframe.
StreamChannels == {<<"candle", ConvertTimeframeToOkxFormat("4h")>>}

\* Data events: one channel; one candle, or a rejectable candle followed by
\* a candle that passes.
DataEvents ==
    {[arg |-> [channel |-> ch], data |-> d] :
        ch \in StreamChannels,
        d \in {<<c>> : c \in WireCandles}
              \cup {<<c1, c2>> : c1 \in Rejectable, c2 \in WireCandles \ Rejectable}}

KeyOf(e) == <<e.symbol, e.timeframe, e.timestamp>>
RowKey(r) == <<r.symbol, r.timeframe, r.timestamp_ms>>

VARIABLES
    candle_queue,       \* Redis list candle_data_queue, head = next BRPOP
    dead_letter_queue,  \* Redis list dead_letter_queue, head = next BRPOP
    store,              \* rows of trading.candlesticks
    next_row_id,        \* the table's id sequence
    bp_pc,              \* batch_processor: "pop" or "process"
    batch,              \* the batch handed to process_batch
    dlq_pc,             \* dead_letter_processor: "pop" or "sleep"
    dlq_item,           \* the item the DLQ loop is sleeping on, if any
    abandoned,          \* items logged as "Permanent DLQ failure"
    trace,              \* the envelope sequence under replay
    replays,            \* completed pushes of the trace
    worker,             \* the OKXDataCollector objects and their run tasks
    msgs_sent,          \* data events the venue has sent
    log_skipped,        \* open times logged "Skipping unconfirmed candle"
    produced,           \* envelopes logged "Processed confirmed candle data"
    collectors,         \* the supervisor's dict: key -> collector or task
    sup,                \* the subscription listener's position and command
    cmd_queue,          \* commands buffered on the pub/sub connection
    rc,                 \* the reconciler's pass: position, clock, gaps
    backfill,           \* the historical backfill: semaphore and tasks
    registry,           \* the names in the tables symbols and timeframes
    subscription,       \* the gateway's subscription:<symbol> keys
    processor_metrics   \* the Redis key processor_metrics, if set

pvars == <<candle_queue, dead_letter_queue, store, next_row_id, bp_pc, batch,
           dlq_pc, dlq_item, abandoned>>
tvars == <<trace, replays>>
cvars == <<worker, msgs_sent, log_skipped, produced>>
svars == <<collectors, sup, cmd_queue>>
rvars == <<rc, backfill, registry, subscription, processor_metrics>>
vars == <<pvars, tvars, cvars, svars, rvars>>

\* ---------------------------------------------------------------- store
\* A plain INSERT without the ON CONFLICT clause: what the upsert is not.
UpsertAppendOnly(st, e) ==
    [rows |-> st.rows \cup
        {[id |-> st.next, symbol |-> e.symbol, timeframe |-> e.timeframe,
          timestamp_ms |-> e.timestamp, open |-> e.open, high |-> e.high,
          low |-> e.low, close |-> e.close, volume |-> e.volume]},
     next |-> st.next + 1]

\* INSERT ... ON CONFLICT (symbol, timeframe, timestamp_ms) DO UPDATE SET
\* open/high/low/close/volume = EXCLUDED.*: st is [rows, next].
Upsert(st, e) ==
    IF \E r \in st.rows : RowKey(r) = KeyOf(e)
    THEN [rows |-> {IF RowKey(r) = KeyOf(e)
                    THEN [r EXCEPT !.open = e.open, !.high = e.high,
                                   !.low = e.low, !.close = e.close,
                                   !.volume = e.volume]
                    ELSE r : r \in st.rows},
          next |-> st.next]
    ELSE [rows |-> st.rows \cup
            {[id |-> st.next, symbol |-> e.symbol, timeframe |-> e.timeframe,
              timestamp_ms |-> e.timestamp, open |-> e.open, high |-> e.high,
              low |-> e.low, close |-> e.close, volume |-> e.volume]},
          next |-> st.next + 1]

\* An executemany that applies the rows from the last to the first.
RECURSIVE UpsertAllReversed(_, _)
UpsertAllReversed(st, items) ==
    IF items = <<>> THEN st
    ELSE UpsertAllReversed(Upsert(st, items[Len(items)]),
                           SubSeq(items, 1, Len(items) - 1))

\* executemany: the rows of insert_data applied in batch order.
RECURSIVE UpsertAll(_, _)
UpsertAll(st, items) ==
    IF items = <<>> THEN st
    ELSE UpsertAll(Upsert(st, Head(items)), Tail(items))

\* ------------------------------------------------------------ persister
Min(a, b) == IF a < b THEN a ELSE b

\* A collecting loop that pops until the queue is empty, whatever BATCH_SIZE.
BatchRpopUnbounded ==
    /\ bp_pc = "collect"
    /\ IF candle_queue = <<>>
       THEN /\ bp_pc' = "process"
            /\ UNCHANGED <<batch, candle_queue>>
       ELSE /\ batch' = Append(batch, Head(candle_queue))
            /\ candle_queue' = Tail(candle_queue)
            /\ bp_pc' = "collect"
    /\ UNCHANGED <<dead_letter_queue, store, next_row_id, dlq_pc, dlq_item,
                   abandoned, tvars, cvars, svars, rvars>>

\* batch_processor: the BRPOP answers with the head of the queue.
BatchPop ==
    /\ bp_pc = "pop"
    /\ candle_queue # <<>>
    /\ batch' = <<Head(candle_queue)>>
    /\ candle_queue' = Tail(candle_queue)
    /\ bp_pc' = IF BATCH_SIZE > 1 THEN "collect" ELSE "process"
    /\ UNCHANGED <<dead_letter_queue, store, next_row_id, dlq_pc, dlq_item,
                   abandoned, tvars, cvars, svars, rvars>>

\* batch_processor: one RPOP of the up to BATCH_SIZE - 1 that follow; an
\* empty answer breaks the loop, the last one ends it.
BatchRpop ==
    /\ bp_pc = "collect"
    /\ IF candle_queue = <<>>
       THEN /\ bp_pc' = "process"
            /\ UNCHANGED <<batch, candle_queue>>
       ELSE /\ batch' = Append(batch, Head(candle_queue))
            /\ candle_queue' = Tail(candle_queue)
            /\ bp_pc' = IF Len(batch) + 1 >= BATCH_SIZE
                        THEN "process" ELSE "collect"
    /\ UNCHANGED <<dead_letter_queue, store, next_row_id, dlq_pc, dlq_item,
                   abandoned, tvars, cvars, svars, rvars>>

\* batch_processor: the BRPOP times out on the empty queue, "continue".
BatchTimeout ==
    /\ bp_pc = "pop"
    /\ candle_queue = <<>>
    /\ UNCHANGED vars

\* The gateway has answered no request and there is no subscription key.
\* deletes counts the DELETE requests answered, symbol and status are the
\* symbol and the HTTP status of the last one.
NoSubscription == [keys |-> {}, deletes |-> 0, symbol |-> <<>>, status |-> 0]

\* create_basic_tables: the tables symbols and timeframes with their
\* first rows.
BasicTables ==
    [symbols |-> {<<"BTC-USDT">>, <<"ETH-USDT">>},
     timeframes |-> {"1m", "5m", "1H"}]

\* An instrument of the venue whose name has 23 characters.
OPTION == <<"BTC-USD-241227-100000-C">>

\* The number of characters of a symbol; symbols.symbol is VARCHAR(20).
SymbolChars(sym) == IF sym = OPTION THEN 23 ELSE 13

SymbolColumnWidth == 20

\* process_batch, the preparation of one item inside the transaction:
\* a name that is not in the cache is looked up and, if not found,
\* inserted.  An INSERT that fails aborts the transaction; in an aborted
\* transaction every statement fails.  A failure skips the item
\* ("continue"); an item that needs no statement is appended all the same.
PrepareItem(p, item) ==
    LET s == IF item.symbol \in p.symbol_cache THEN [p EXCEPT !.ok = TRUE]
             ELSE IF p.aborted THEN [p EXCEPT !.ok = FALSE]
             ELSE IF item.symbol \in p.registry.symbols
                  THEN [p EXCEPT !.ok = TRUE,
                                 !.symbol_cache = @ \cup {item.symbol}]
             ELSE IF SymbolChars(item.symbol) > SymbolColumnWidth
                  THEN [p EXCEPT !.ok = FALSE, !.aborted = TRUE]
             ELSE [p EXCEPT !.ok = TRUE,
                            !.symbol_cache = @ \cup {item.symbol},
                            !.registry.symbols = @ \cup {item.symbol}]
        f == IF ~s.ok \/ item.timeframe \in s.timeframe_cache THEN s
             ELSE IF s.aborted THEN [s EXCEPT !.ok = FALSE]
             ELSE [s EXCEPT
                     !.timeframe_cache = @ \cup {item.timeframe},
                     !.registry.timeframes = @ \cup {item.timeframe}]
    IN IF f.ok THEN [f EXCEPT !.insert_data = Append(@, item)] ELSE f

\* The loop, item by item; q is the outcome of the item before.
RECURSIVE PrepareFrom(_, _)
PrepareFrom(p, items) ==
    IF items = <<>> THEN p
    ELSE CHOOSE r \in {PrepareFrom(q, Tail(items)) :
                        q \in {PrepareItem(p, Head(items))}} : TRUE

\* process_batch, the for loop over the batch: insert_data, whether the
\* transaction is aborted, and the registry as the transaction sees it.
PrepareBatch(reg, items) ==
    PrepareFrom([ok |-> TRUE, aborted |-> FALSE, insert_data |-> <<>>,
                 symbol_cache |-> {}, timeframe_cache |-> {},
                 registry |-> reg], items)

\* process_batch, the transaction commits.
ProcessBatchCommit ==
    /\ bp_pc = "process"
    /\ \E p \in {PrepareBatch(registry, batch)} :
        /\ ~p.aborted
        /\ registry' = p.registry
    /\ LET st == UpsertAll([rows |-> store, next |-> next_row_id], batch) IN
        /\ store' = st.rows
        /\ next_row_id' = st.next
    /\ batch' = <<>>
    /\ bp_pc' = "pop"
    /\ UNCHANGED <<candle_queue, dead_letter_queue, dlq_pc, dlq_item,
                   abandoned, tvars, cvars, svars, rc, backfill,
                   subscription, processor_metrics>>

\* A DLQ hand-over that forwards only the first item of a failed batch.
DlqItemsFirstOnly(items) ==
    <<[Head(items) EXCEPT !.retry_count = @ + 1]>>

\* send_to_dlq: every item of the batch, retry_count raised by one.
RECURSIVE DlqItems(_)
DlqItems(items) ==
    IF items = <<>> THEN <<>>
    ELSE <<[Head(items) EXCEPT !.retry_count = @ + 1]>> \o DlqItems(Tail(items))

\* process_batch, the transaction raises: rolled back, batch to the DLQ.
ProcessBatchFail ==
    /\ bp_pc = "process"
    /\ dead_letter_queue' = dead_letter_queue \o DlqItems(batch)
    /\ batch' = <<>>
    /\ bp_pc' = "pop"
    /\ UNCHANGED <<candle_queue, store, next_row_id, dlq_pc, dlq_item,
                   abandoned, tvars, cvars, svars, rvars>>

\* process_batch of a batch with a symbol that the table symbols cannot
\* hold: the transaction is aborted.  With items in insert_data the
\* executemany raises, the transaction is rolled back and the whole batch
\* goes to the DLQ; with none the block is left, nothing is written and
\* nothing is handed to the DLQ.
ProcessBatchLookups ==
    /\ bp_pc = "process"
    /\ \E p \in {PrepareBatch(registry, batch)} :
        /\ p.aborted
        /\ dead_letter_queue' =
            IF p.insert_data # <<>>
            THEN dead_letter_queue \o DlqItems(batch)
            ELSE dead_letter_queue
    /\ batch' = <<>>
    /\ bp_pc' = "pop"
    /\ UNCHANGED <<candle_queue, store, next_row_id, dlq_pc, dlq_item,
                   abandoned, tvars, cvars, svars, rvars>>

\* process_batch, a symbol or timeframe lookup raises inside the
\* transaction: "except Exception: continue" skips the item, the aborted
\* transaction fails every later lookup, insert_data stays empty and
\* neither executemany nor send_to_dlq is reached.
ProcessBatchLookupFail ==
    /\ bp_pc = "process"
    /\ batch' = <<>>
    /\ bp_pc' = "pop"
    /\ UNCHANGED <<candle_queue, dead_letter_queue, store, next_row_id,
                   dlq_pc, dlq_item, abandoned, tvars, cvars, svars, rvars>>

\* A DLQ loop that retries whatever the retry count is.
DlqPopAlwaysRetry ==
    /\ dlq_pc = "pop"
    /\ dead_letter_queue # <<>>
    /\ dlq_item' = <<Head(dead_letter_queue)>>
    /\ dlq_pc' = "sleep"
    /\ dead_letter_queue' = Tail(dead_letter_queue)
    /\ UNCHANGED <<candle_queue, store, next_row_id, bp_pc, batch, abandoned,
                   tvars, cvars, svars, rvars>>

\* dead_letter_processor: BRPOP, then retry (after a sleep) or give up.
DlqPop ==
    /\ dlq_pc = "pop"
    /\ dead_letter_queue # <<>>
    /\ LET item == Head(dead_letter_queue) IN
        IF item.retry_count < MAX_RETRIES
        THEN /\ dlq_item' = <<item>>
             /\ dlq_pc' = "sleep"
             /\ UNCHANGED abandoned
        ELSE /\ abandoned' = abandoned \cup {item}
             /\ UNCHANGED <<dlq_item, dlq_pc>>
    /\ dead_letter_queue' = Tail(dead_letter_queue)
    /\ UNCHANGED <<candle_queue, store, next_row_id, bp_pc, batch, tvars,
                   cvars, svars, rvars>>

\* A retry that pushes the item to the candle queue twice.
DlqRepushTwice ==
    /\ dlq_pc = "sleep"
    /\ candle_queue' = candle_queue \o dlq_item \o dlq_item
    /\ dlq_item' = <<>>
    /\ dlq_pc' = "pop"
    /\ UNCHANGED <<dead_letter_queue, store, next_row_id, bp_pc, batch,
                   abandoned, tvars, cvars, svars, rvars>>

\* dead_letter_processor: the sleep is over, LPUSH to candle_data_queue.
DlqRepush ==
    /\ dlq_pc = "sleep"
    /\ candle_queue' = candle_queue \o dlq_item
    /\ dlq_item' = <<>>
    /\ dlq_pc' = "pop"
    /\ UNCHANGED <<dead_letter_queue, store, next_row_id, bp_pc, batch,
                   abandoned, tvars, cvars, svars, rvars>>

PersisterInit ==
    /\ candle_queue = <<>>
    /\ dead_letter_queue = <<>>
    /\ store = {}
    /\ next_row_id = 1
    /\ bp_pc = "pop"
    /\ batch = <<>>
    /\ dlq_pc = "pop"
    /\ dlq_item = <<>>
    /\ abandoned = {}

\* ------------------------------------------------------------ collector
Workers == 1..MaxWorkers

\* channel_info.get('channel', '').replace('candle', '')
TimeframeOf(ch) ==
    LET rest == SelectSeq(ch, LAMBDA t : t # "candle")
    IN IF rest = <<>> THEN "" ELSE rest[1]

\* settings.DEFAULT_TIMEFRAMES.split(",")
DEFAULT_TIMEFRAMES == <<"5m", "15m", "1h", "4h", "1d">>

\* subscribe_channels: one {channel, instId} argument per timeframe.
SubscriptionArgs(sym, timeframes) ==
    {[channel |-> <<"candle", ConvertTimeframeToOkxFormat(timeframes[i])>>,
      instId |-> sym] : i \in 1..Len(timeframes)}

\* A position of the dict that holds no object.  subscription_args is the
\* argument list of the last subscribe message sent; requested records the
\* timeframes of the command the worker was created for.
NoWorker ==
    [symbol |-> <<>>, pc |-> "none", is_running |-> FALSE,
     is_connected |-> FALSE, websocket |-> None, sock_open |-> FALSE,
     reconnect_delay |-> 0, reconnect_count |-> 0, cancel |-> FALSE,
     exc |-> None, inbox |-> <<>>, channel |-> <<>>,
     subscription_args |-> {}, requested |-> <<>>,
     status_key |-> <<>>, status_age |-> 0, collector_status_key |-> <<>>,
     fails |-> 0, base |-> 0, last_sleep |-> 0, prev_sleep |-> 0]

\* OKXDataCollector.__init__ and asyncio.create_task(collector.run()): the
\* task exists and has not run yet.  fails, base, last_sleep and prev_sleep
\* record the history the backoff claims speak of: the failed attempts in a
\* row, whether a stream was ever entered, the last two sleeps.
NewWorker(sym) ==
    [NoWorker EXCEPT !.symbol = sym, !.pc = "created",
                     !.requested = DEFAULT_TIMEFRAMES,
                     !.reconnect_delay = INITIAL_RECONNECT_DELAY]

\* update_status: SET status:<symbol> with ex=300; the snapshot carries the
\* status word and is_connected as it is at the call.  status_age counts
\* the reports of the health reporter since the key was last written.
UpdateStatus(r, status) ==
    [r EXCEPT !.status_key = <<[status |-> status,
                                is_connected |-> r.is_connected]>>,
              !.status_age = 0]

\* A backoff that triples instead of doubling.
NextDelayTripled(d) == Min(d * 3, MAX_RECONNECT_DELAY)
\* The delay after a sleep: min(reconnect_delay * 2, MAX_RECONNECT_DELAY).
NextDelay(d) == Min(d * 2, MAX_RECONNECT_DELAY)

\* A run loop that gives up after two reconnects.
AfterFinallyGivesUp(r) ==
    IF r.is_running /\ r.reconnect_count < 2
    THEN [r EXCEPT !.reconnect_count = @ + 1,
                   !.prev_sleep = r.last_sleep,
                   !.last_sleep = r.reconnect_delay,
                   !.pc = "sleeping"]
    ELSE [r EXCEPT !.pc = "done"]

\* run(), after the finally block: "if self.is_running" count the reconnect
\* and sleep reconnect_delay; otherwise the while loop ends.
AfterFinally(r) ==
    IF r.is_running
    THEN [r EXCEPT !.reconnect_count = @ + 1,
                   !.prev_sleep = r.last_sleep,
                   !.last_sleep = r.reconnect_delay,
                   !.pc = "sleeping"]
    ELSE [r EXCEPT !.pc = "done"]

\* run(), the finally block: close the socket if there is one (an await),
\* else clear is_connected and go on.
Finally(r) ==
    IF r.websocket # None
    THEN [r EXCEPT !.pc = "closing"]
    ELSE AfterFinally([r EXCEPT !.is_connected = FALSE])

\* The model stops a worker's loop after cap reconnects.
MayReconnect(r, cap) == r.is_running => r.reconnect_count < cap

\* run(), the except block: update_status("disconnected") is awaited.
Handler(r) == [r EXCEPT !.pc = "status_disconnected", !.fails = @ + 1]

\* The run task takes its first step: is_running = True, connect.
TaskStart(w) ==
    /\ worker[w].pc = "created"
    /\ ~worker[w].cancel
    /\ worker' = [worker EXCEPT ![w].is_running = TRUE, ![w].pc = "connecting"]
    /\ UNCHANGED <<msgs_sent, log_skipped, produced, pvars, tvars, svars, rvars>>

\* connect_websocket: websockets.connect returns a socket.
ConnectOK(w) ==
    /\ worker[w].pc = "connecting"
    /\ ~worker[w].cancel
    /\ worker' = [worker EXCEPT ![w].websocket = "ws", ![w].sock_open = TRUE,
                                ![w].is_connected = TRUE,
                                ![w].pc = "status_connected"]
    /\ UNCHANGED <<msgs_sent, log_skipped, produced, pvars, tvars, svars, rvars>>

\* connect_websocket: websockets.connect raises.
ConnectFail(w) ==
    /\ worker[w].pc = "connecting"
    /\ ~worker[w].cancel
    /\ worker' = [worker EXCEPT
                    ![w] = Handler([worker[w] EXCEPT !.is_connected = FALSE])]
    /\ UNCHANGED <<msgs_sent, log_skipped, produced, pvars, tvars, svars, rvars>>

\* update_status("connected") is done; subscribe_channels checks the socket
\* and sends the subscribe message.
StatusConnectedDone(w) ==
    /\ worker[w].pc = "status_connected"
    /\ ~worker[w].cancel
    /\ LET r == UpdateStatus(worker[w], "connected")
       IN worker' = [worker EXCEPT ![w] =
            IF r.websocket = None \/ ~r.is_connected
            THEN Handler(r)
            ELSE [r EXCEPT !.pc = "sending"]]
    /\ UNCHANGED <<msgs_sent, log_skipped, produced, pvars, tvars, svars, rvars>>

\* A stream entry that leaves the delay as it has grown.
EnterStreamNoReset(r) ==
    [r EXCEPT !.pc = "listening", !.fails = 0, !.base = 1]
\* run(), the stream is entered: the delay is reset before listen_messages.
EnterStream(r) ==
    [r EXCEPT !.reconnect_delay = INITIAL_RECONNECT_DELAY,
              !.pc = "listening", !.fails = 0, !.base = 1]

\* subscribe_channels(), called without timeframes: the subscribe message
\* for the default timeframes went through.
SendOK(w) ==
    /\ worker[w].pc = "sending"
    /\ ~worker[w].cancel
    /\ worker[w].sock_open
    /\ worker' = [worker EXCEPT ![w] =
            [EnterStream(worker[w]) EXCEPT !.subscription_args =
                SubscriptionArgs(worker[w].symbol, DEFAULT_TIMEFRAMES)]]
    /\ UNCHANGED <<msgs_sent, log_skipped, produced, pvars, tvars, svars, rvars>>

\* subscribe_channels: the send raises.
SendFail(w) ==
    /\ worker[w].pc = "sending"
    /\ ~worker[w].cancel
    /\ worker' = [worker EXCEPT ![w] = Handler(worker[w])]
    /\ UNCHANGED <<msgs_sent, log_skipped, produced, pvars, tvars, svars, rvars>>

\* listen_messages: a data event arrives; "if not self.is_running: break",
\* else process_message -> process_candle_data takes its candle list.
ReceiveMessage(w, cap) ==
    /\ worker[w].pc = "listening"
    /\ ~worker[w].cancel
    /\ worker[w].sock_open /\ worker[w].websocket # None
    /\ worker[w].inbox = <<>>
    /\ msgs_sent < MaxMsgs
    /\ msgs_sent' = msgs_sent + 1
    /\ \E m \in DataEvents :
        IF worker[w].is_running
        THEN worker' = [worker EXCEPT ![w].inbox = m.data,
                                      ![w].channel = m.arg.channel]
        ELSE /\ MayReconnect(worker[w], cap)
             /\ worker' = [worker EXCEPT ![w] = Finally(worker[w])]
    /\ UNCHANGED <<log_skipped, produced, pvars, tvars, svars, rvars>>

\* A validation that does not read the confirm field.
CandleVerdictNoConfirmCheck(sym, ch, cd) ==
    IF Len(cd) < 9 THEN [kind |-> "short"]
    ELSE IF cd[6] <= 0 THEN [kind |-> "volume"]
    ELSE IF cd[5] <= 0 THEN [kind |-> "price"]
    ELSE [kind |-> "push",
          item |-> [symbol |-> sym, timeframe |-> TimeframeOf(ch),
                    timestamp |-> cd[1], open |-> cd[2], high |-> cd[3],
                    low |-> cd[4], close |-> cd[5], volume |-> cd[6],
                    confirm |-> TRUE, retry_count |-> 0]]

\* process_candle_data, one candle of the list: what is pushed, if anything.
\* Too short, not confirmed ("1"), volume <= 0 or close <= 0: skipped.
\* float() of the volume or the close, and after the validation float()
\* or int() of another field, raises on a text that is no number.
CandleVerdict(sym, ch, cd) ==
    IF Len(cd) < 9 THEN [kind |-> "short"]
    ELSE IF cd[9] # "1" THEN [kind |-> "unconfirmed"]
    ELSE IF cd[6] = NonNumeric \/ cd[5] = NonNumeric THEN [kind |-> "error"]
    ELSE IF cd[6] <= 0 THEN [kind |-> "volume"]
    ELSE IF cd[5] <= 0 THEN [kind |-> "price"]
    ELSE IF \E i \in {1, 2, 3, 4, 7} : cd[i] = NonNumeric
         THEN [kind |-> "error"]
    ELSE [kind |-> "push",
          item |-> [symbol |-> sym, timeframe |-> TimeframeOf(ch),
                    timestamp |-> cd[1], open |-> cd[2], high |-> cd[3],
                    low |-> cd[4], close |-> cd[5], volume |-> cd[6],
                    confirm |-> TRUE, retry_count |-> 0]]

\* process_candle_data: the next candle of the event is skipped or pushed
\* (LPUSH candle_data_queue); an exception is caught around the loop, so
\* it ends the event.
ProcessCandle(w) ==
    /\ worker[w].pc = "listening"
    /\ ~worker[w].cancel
    /\ worker[w].inbox # <<>>
    /\ LET cd == Head(worker[w].inbox)
           v == CandleVerdict(worker[w].symbol, worker[w].channel, cd)
       IN /\ candle_queue' = IF v.kind = "push"
                             THEN Append(candle_queue, v.item)
                             ELSE candle_queue
          /\ produced' = IF v.kind = "push"
                         THEN produced \cup {v.item}
                         ELSE produced
          /\ log_skipped' = IF v.kind = "unconfirmed"
                            THEN log_skipped \cup {cd[1]}
                            ELSE log_skipped
    /\ worker' = [worker EXCEPT ![w].inbox =
            IF CandleVerdict(worker[w].symbol, worker[w].channel,
                             Head(@)).kind = "error"
            THEN <<>> ELSE Tail(@)]
    /\ UNCHANGED <<msgs_sent, dead_letter_queue, store, next_row_id, bp_pc,
                   batch, dlq_pc, dlq_item, abandoned, tvars, svars, rvars>>

\* process_candle_data: a conversion or the LPUSH raises; the exception is
\* caught around the loop, so the rest of the event's list is dropped and
\* the worker goes on listening.
ProcessError(w) ==
    /\ worker[w].pc = "listening"
    /\ ~worker[w].cancel
    /\ worker[w].inbox # <<>>
    /\ worker' = [worker EXCEPT ![w].inbox = <<>>]
    /\ UNCHANGED <<msgs_sent, log_skipped, produced, pvars, tvars, svars, rvars>>

\* listen_messages returns: the peer closed, the socket was closed by
\* stop(), or iterating failed; every exception is caught inside.
ListenEnd(w, cap) ==
    /\ worker[w].pc = "listening"
    /\ ~worker[w].cancel
    /\ worker[w].inbox = <<>>
    /\ MayReconnect(worker[w], cap)
    /\ worker' = [worker EXCEPT ![w] =
            Finally([worker[w] EXCEPT !.is_connected = FALSE,
                                      !.sock_open = FALSE])]
    /\ UNCHANGED <<msgs_sent, log_skipped, produced, pvars, tvars, svars, rvars>>

\* run(), the except block is through: finally.
StatusDisconnectedDone(w, cap) ==
    /\ worker[w].pc = "status_disconnected"
    /\ ~worker[w].cancel
    /\ MayReconnect(worker[w], cap)
    /\ worker' = [worker EXCEPT ![w] =
            Finally(UpdateStatus(worker[w], "disconnected"))]
    /\ UNCHANGED <<msgs_sent, log_skipped, produced, pvars, tvars, svars, rvars>>

\* run(), finally: websocket.close() is through.  The bare "except: pass"
\* around it also swallows a cancellation that arrives during the close; an
\* exception that was already on its way up (exc) goes on after the finally.
CloseDone(w, cap) ==
    /\ worker[w].pc = "closing"
    /\ LET r == [worker[w] EXCEPT !.sock_open = FALSE, !.websocket = None,
                                  !.is_connected = FALSE, !.cancel = FALSE]
       IN IF r.exc # None
          THEN worker' = [worker EXCEPT ![w] = [r EXCEPT !.pc = "done"]]
          ELSE /\ MayReconnect(r, cap)
               /\ worker' = [worker EXCEPT ![w] = AfterFinally(r)]
    /\ UNCHANGED <<msgs_sent, log_skipped, produced, pvars, tvars, svars, rvars>>

\* run(): the sleep is over, the delay doubles up to the maximum, and the
\* while condition is read again.
SleepDone(w) ==
    /\ worker[w].pc = "sleeping"
    /\ ~worker[w].cancel
    /\ worker' = [worker EXCEPT
            ![w].reconnect_delay = NextDelay(@),
            ![w].pc = IF worker[w].is_running THEN "connecting" ELSE "done"]
    /\ UNCHANGED <<msgs_sent, log_skipped, produced, pvars, tvars, svars, rvars>>

\* task.cancel(): CancelledError is raised at the await the task stands at.
\* No "except Exception" catches it; inside the try block of run() the
\* finally block still runs, the sleep is outside of it.
Cancelled(w) ==
    /\ worker[w].cancel
    /\ worker[w].pc \in {"created", "connecting", "status_connected",
                         "sending", "listening", "status_disconnected",
                         "sleeping"}
    /\ LET r == [worker[w] EXCEPT !.cancel = FALSE, !.inbox = <<>>]
       IN worker' = [worker EXCEPT ![w] =
            IF r.pc \in {"created", "sleeping"} THEN [r EXCEPT !.pc = "done"]
            ELSE IF r.websocket # None
                 THEN [r EXCEPT !.pc = "closing", !.exc = "cancelled"]
                 ELSE [r EXCEPT !.pc = "done", !.is_connected = FALSE]]
    /\ UNCHANGED <<msgs_sent, log_skipped, produced, pvars, tvars, svars, rvars>>

\* ----------------------------------------------------------- supervisor
DEFAULT_SYMBOL == BTC
TaskKey(sym) == Append(sym, "_task")
\* Symbols the gateway may publish commands for: any string is accepted.
Symbols == {BTC, TaskKey(BTC)}
Keys == Symbols \cup {TaskKey(s) : s \in Symbols}

\* The timeframes a command may carry.
TimeframeRequests == {<<"1m">>, <<"1h", "4h">>, DEFAULT_TIMEFRAMES}

Commands ==
    [action : {"subscribe", "unsubscribe"}, symbol : Symbols,
     timeframes : {DEFAULT_TIMEFRAMES}]

\* Subscribe commands with timeframes of the caller's choice.
SubscribeCommands ==
    [action : {"subscribe"}, symbol : {BTC}, timeframes : TimeframeRequests]
NoCommand == [action |-> "none", symbol |-> <<>>, victims |-> {}]

\* The workers of a symbol whose run task has not ended.
Live(w) == worker[w].pc \notin {"none", "done"}
WorkersOf(sym) == {w \in Workers : worker[w].symbol = sym /\ Live(w)}

\* A task that was created and has not taken its first step runs as soon
\* as the current task suspends: nobody resumes from an await before it.
NoCreated == \A w \in Workers : worker[w].pc # "created"

\* The listener before its first command: pc, the next worker to
\* construct, the command at hand and the worker or task it acts on, the
\* number of commands published, and the command processed last together
\* with the workers its symbol had.
\* shutdown is shutdown_event, cancel the listener task's pending
\* cancellation, health the health reporter's task; main_pc, todo, main_sym
\* and main_target are main()'s position, the keys it still has to stop
\* and the symbol and worker or task it is stopping.
SupStart(n) ==
    [pc |-> "waiting", next_worker |-> n,
     cmd |-> [action |-> "none", symbol |-> <<>>, timeframes |-> <<>>],
     target |-> 0,
     victims |-> {}, published |-> 0, last |-> NoCommand,
     shutdown |-> FALSE, cancel |-> FALSE, health |-> "running",
     main_pc |-> "run", todo |-> <<>>, main_sym |-> <<>>, main_target |-> 0]

\* main() with AUTO_START: create_collector_for_symbol(DEFAULT_SYMBOL) has
\* put the collector and its task into the dict.
AutoStarted ==
    /\ worker = [w \in Workers |->
                    IF w = 1 THEN NewWorker(DEFAULT_SYMBOL) ELSE NoWorker]
    /\ collectors = [k \in Keys |->
                        IF k = DEFAULT_SYMBOL
                        THEN [kind |-> "collector", id |-> 1]
                        ELSE IF k = TaskKey(DEFAULT_SYMBOL)
                             THEN [kind |-> "task", id |-> 1]
                             ELSE Absent]
    /\ msgs_sent = 0
    /\ log_skipped = {}
    /\ produced = {}
    /\ sup = SupStart(2)
    /\ cmd_queue = <<>>

\* main() without AUTO_START: the dict is empty.
NotStarted ==
    /\ worker = [w \in Workers |-> NoWorker]
    /\ collectors = [k \in Keys |-> Absent]
    /\ msgs_sent = 0
    /\ log_skipped = {}
    /\ produced = {}
    /\ sup = SupStart(1)
    /\ cmd_queue = <<>>

\* The gateway publishes a command on collector:<symbol>.
PublishFrom(cmds, max) ==
    /\ sup.published < max
    /\ \E c \in cmds : cmd_queue' = Append(cmd_queue, c)
    /\ sup' = [sup EXCEPT !.published = @ + 1]
    /\ UNCHANGED <<collectors, pvars, tvars, cvars, rvars>>

Publish == PublishFrom(Commands, MaxCommands)

\* pubsub.listen(): nothing is buffered, the listener suspends.
SupWait ==
    /\ sup.pc = "next"
    /\ cmd_queue = <<>>
    /\ sup' = [sup EXCEPT !.pc = "waiting"]
    /\ UNCHANGED <<collectors, cmd_queue, pvars, tvars, cvars, rvars>>

Finished(c, v) == [action |-> c.action, symbol |-> c.symbol, victims |-> v]

\* The listener takes the next command.  subscribe: create_collector_for_
\* symbol up to "await collector.initialize()", or the no-op if the key is
\* there.  unsubscribe: stop_collector_for_symbol up to the first await of
\* collector.stop(); collectors[symbol] may be a Task, whose missing stop()
\* raises into "except Exception".
SupTake ==
    /\ sup.pc = "next" \/ (sup.pc = "waiting" /\ NoCreated)
    /\ ~sup.shutdown
    /\ cmd_queue # <<>>
    /\ Head(cmd_queue).action \in {"subscribe", "unsubscribe"}
    /\ cmd_queue' = Tail(cmd_queue)
    /\ LET c == Head(cmd_queue)
           e == collectors[c.symbol]
           v == WorkersOf(c.symbol)
       IN IF c.action = "subscribe"
          THEN IF e # Absent
               THEN /\ sup' = [sup EXCEPT !.pc = "next", !.last = Finished(c, v)]
                    /\ UNCHANGED worker
               ELSE /\ sup.next_worker <= MaxWorkers
                    /\ sup' = [sup EXCEPT !.pc = "init", !.cmd = c,
                                          !.victims = v, !.last = NoCommand]
                    /\ UNCHANGED worker
          ELSE IF e = Absent \/ e.kind = "task"
               THEN /\ sup' = [sup EXCEPT !.pc = "next", !.last = Finished(c, v)]
                    /\ UNCHANGED worker
               ELSE /\ worker' = [worker EXCEPT ![e.id].is_running = FALSE]
                    /\ sup' = [sup EXCEPT
                            !.pc = IF worker[e.id].websocket # None
                                   THEN "stop_close" ELSE "stop_status",
                            !.cmd = c, !.target = e.id, !.victims = v,
                            !.last = NoCommand]
    /\ UNCHANGED <<collectors, msgs_sent, log_skipped, produced, pvars,
                   tvars, rvars>>

\* create_collector_for_symbol: initialize() is through; the collector and
\* the task of run() are put into the dict.
SupInitDone ==
    /\ sup.pc = "init"
    /\ NoCreated /\ ~sup.cancel
    /\ LET w == sup.next_worker
           sym == sup.cmd.symbol
       IN /\ worker' = [worker EXCEPT ![w] =
                    [NewWorker(sym) EXCEPT !.requested = sup.cmd.timeframes]]
          /\ collectors' = [collectors EXCEPT
                                ![sym] = [kind |-> "collector", id |-> w],
                                ![TaskKey(sym)] = [kind |-> "task", id |-> w]]
          /\ sup' = [sup EXCEPT !.pc = "next", !.next_worker = w + 1,
                                !.last = Finished(sup.cmd, sup.victims)]
    /\ UNCHANGED <<cmd_queue, msgs_sent, log_skipped, produced, pvars,
                   tvars, rvars>>

\* create_collector_for_symbol: initialize() raises (Redis is away).
SupInitFail ==
    /\ sup.pc = "init"
    /\ NoCreated /\ ~sup.cancel
    /\ sup' = [sup EXCEPT !.pc = "next",
                          !.last = Finished(sup.cmd, sup.victims)]
    /\ UNCHANGED <<collectors, cmd_queue, pvars, tvars, cvars, rvars>>

\* stop(): websocket.close() is through, websocket = None.
SupStopCloseDone ==
    /\ sup.pc = "stop_close"
    /\ NoCreated /\ ~sup.cancel
    /\ worker' = [worker EXCEPT ![sup.target].websocket = None,
                                ![sup.target].sock_open = FALSE]
    /\ sup' = [sup EXCEPT !.pc = "stop_status"]
    /\ UNCHANGED <<collectors, cmd_queue, msgs_sent, log_skipped, produced,
                   pvars, tvars, rvars>>

\* stop(): update_status("stopped") and redis_client.close() are through;
\* stop_collector_for_symbol deletes the symbol's key and cancels what the
\* task key holds.  A collector object under the task key has no cancel():
\* the exception ends the function with the task key left in place.
StopDeleteAndCancel(s) ==
    LET sym == s.cmd.symbol
        t == collectors[TaskKey(sym)]
        stopped == [worker EXCEPT ![s.target] = UpdateStatus(@, "stopped")]
    IN /\ collectors' = [collectors EXCEPT ![sym] = Absent]
       /\ IF t = Absent \/ t.kind = "collector"
          THEN /\ sup' = [s EXCEPT !.pc = "next",
                                   !.last = Finished(s.cmd, s.victims)]
               /\ worker' = stopped
          ELSE /\ sup' = [s EXCEPT !.pc = "await_task", !.target = t.id]
               /\ worker' = [stopped EXCEPT ![t.id].cancel =
                                 (worker[t.id].pc # "done")]

SupStopStatusDone ==
    /\ sup.pc = "stop_status"
    /\ NoCreated /\ ~sup.cancel
    /\ StopDeleteAndCancel(sup)
    /\ UNCHANGED <<cmd_queue, msgs_sent, log_skipped, produced, pvars,
                   tvars, rvars>>

\* stop_collector_for_symbol: "await task" returns or raises
\* CancelledError, the task key is deleted.
SupAwaitDone ==
    /\ sup.pc = "await_task"
    /\ ~sup.cancel
    /\ worker[sup.target].pc = "done"
    /\ collectors' = [collectors EXCEPT ![TaskKey(sup.cmd.symbol)] = Absent]
    /\ sup' = [sup EXCEPT !.pc = "next",
                          !.last = Finished(sup.cmd, sup.victims)]
    /\ UNCHANGED <<cmd_queue, pvars, tvars, cvars, rvars>>

\* ----------------------------------------------------------- reconciler
\* The pass of check_data_integrity for one (symbol, timeframe); its stages
\* read the clock within milliseconds of each other, taken as one reading.
HourMs == 3600 * 1000

\* timeframe_intervals.get(timeframe, 5) * 60 * 1000
IntervalMs(tf) ==
    (CASE tf = "1m" -> 1
       [] tf = "5m" -> 5
       [] tf = "15m" -> 15
       [] tf = "1h" -> 60
       [] tf = "4h" -> 240
       [] tf = "1d" -> 1440
       [] OTHER -> 5) * 60 * 1000

RcSymbol == BTC
\* The timeframe check_data_integrity was called for.
RcTimeframe == rc.timeframe

\* The venue's candles open at the multiples of the interval.
GridUpTo(tf, now) == {k * IntervalMs(tf) : k \in 0..(now \div IntervalMs(tf))}

\* Clock readings of a pass: one that puts the window's start on the grid
\* of the timeframe and one that does not.
Nows == {(HoursBack + 4) * HourMs, (HoursBack + 5) * HourMs}

InWindowRows(st, sym, tf, cutoff) ==
    {r \in st : r.symbol = sym /\ r.timeframe = tf /\ r.timestamp_ms >= cutoff}

\* A dedup that keeps the newest row of a key instead of the oldest.
RemoveDuplicatesKeepNewest(st, sym, tf, cutoff) ==
    {r \in st :
        r \in InWindowRows(st, sym, tf, cutoff) =>
            \A q \in InWindowRows(st, sym, tf, cutoff) :
                RowKey(q) = RowKey(r) => r.id >= q.id}

\* remove_duplicates: per key with more than one row from the cutoff on,
\* every row but the one with the least id is deleted.
RemoveDuplicatesOf(st, sym, tf, cutoff) ==
    {r \in st :
        r \in InWindowRows(st, sym, tf, cutoff) =>
            \A q \in InWindowRows(st, sym, tf, cutoff) :
                RowKey(q) = RowKey(r) => r.id <= q.id}

\* The WHERE clause of fix_invalid_data.
Invalid(r) ==
    \/ r.open <= 0 \/ r.high <= 0 \/ r.low <= 0 \/ r.close <= 0
    \/ r.volume <= 0
    \/ r.high < r.low \/ r.high < r.open \/ r.high < r.close
    \/ r.low > r.open \/ r.low > r.close

\* A purge that looks at the whole table.
FixInvalidDataAnywhere(st, sym, tf, cutoff) == {r \in st : ~Invalid(r)}

\* fix_invalid_data: the invalid rows from the cutoff on are deleted.
FixInvalidDataOf(st, sym, tf, cutoff) ==
    {r \in st : ~(r \in InWindowRows(st, sym, tf, cutoff) /\ Invalid(r))}

\* detect_data_gaps: the expected timestamps start_ts, start_ts + interval,
\* ... up to end_ts that no row of the window carries.
Expected(tf, start_ts, end_ts) ==
    {start_ts + k * IntervalMs(tf) :
        k \in 0..((end_ts - start_ts) \div IntervalMs(tf))}

Missing(st, sym, tf, start_ts, end_ts) ==
    Expected(tf, start_ts, end_ts) \
        {r.timestamp_ms : r \in {q \in st :
            /\ q.symbol = sym /\ q.timeframe = tf
            /\ q.timestamp_ms >= start_ts /\ q.timestamp_ms <= end_ts}}

\* sorted(...)
RECURSIVE Ascending(_)
Ascending(S) ==
    IF S = {} THEN <<>>
    ELSE LET m == CHOOSE x \in S : \A y \in S : x <= y
         IN <<m>> \o Ascending(S \ {m})

\* A DataGap from gap_start to gap_end.
DataGap(tf, gap_start, gap_end) ==
    [start_ts |-> gap_start, end_ts |-> gap_end,
     missing_count |-> (gap_end - gap_start) \div IntervalMs(tf) + 1]

\* A grouping that extends the gap only next to its first timestamp.
RECURSIVE GapsFromStart(_, _, _, _, _)
GapsFromStart(sorted_missing, tf, i, gap_start, gap_end) ==
    IF i > Len(sorted_missing) THEN <<DataGap(tf, gap_start, gap_end)>>
    ELSE IF sorted_missing[i] = gap_start + IntervalMs(tf)
    THEN GapsFromStart(sorted_missing, tf, i + 1, gap_start,
                       sorted_missing[i])
    ELSE <<DataGap(tf, gap_start, gap_end)>>
         \o GapsFromStart(sorted_missing, tf, i + 1, sorted_missing[i],
                          sorted_missing[i])

\* detect_data_gaps, the loop that groups the sorted missing timestamps:
\* sorted_missing[i] extends the gap when it follows gap_end by one
\* interval and closes it otherwise; the last gap is added after the loop.
RECURSIVE GapsFrom(_, _, _, _, _)
GapsFrom(sorted_missing, tf, i, gap_start, gap_end) ==
    IF i > Len(sorted_missing) THEN <<DataGap(tf, gap_start, gap_end)>>
    ELSE IF sorted_missing[i] = gap_end + IntervalMs(tf)
    THEN GapsFrom(sorted_missing, tf, i + 1, gap_start, sorted_missing[i])
    ELSE <<DataGap(tf, gap_start, gap_end)>>
         \o GapsFrom(sorted_missing, tf, i + 1, sorted_missing[i],
                     sorted_missing[i])

DetectDataGaps(st, sym, tf, now) ==
    LET missing == Missing(st, sym, tf, now - HoursBack * HourMs, now)
        sorted_missing == Ascending(missing)
    IN IF missing = {} THEN <<>>
       ELSE GapsFrom(sorted_missing, tf, 2, sorted_missing[1],
                     sorted_missing[1])

\* exchange.fetch_ohlcv(since, limit = 1000): the venue's candles from
\* since on in ascending order, at most 1000; f gives their values.
FetchOHLCV(tf, since, now, f) ==
    LET ts == Ascending({t \in GridUpTo(tf, now) : t >= since})
        all == [i \in 1..Len(ts) |->
                    LET v == IF ts[i] \in DOMAIN f THEN f[ts[i]] ELSE SampleA
                    IN <<ts[i], v.open, v.high, v.low, v.close, v.volume>>]
    IN SubSeq(all, 1, Min(Len(all), 1000))

\* INSERT ... ON CONFLICT (symbol, timeframe, timestamp_ms) DO NOTHING
InsertDoNothing(st, sym, tf, c) ==
    IF \E r \in st.rows : RowKey(r) = <<sym, tf, c[1]>>
    THEN st
    ELSE [rows |-> st.rows \cup
            {[id |-> st.next, symbol |-> sym, timeframe |-> tf,
              timestamp_ms |-> c[1], open |-> c[2], high |-> c[3],
              low |-> c[4], close |-> c[5], volume |-> c[6]]},
          next |-> st.next + 1]

\* A gap fill that inserts every valid candle of the response, whether it
\* lies inside the gap or not.
RECURSIVE FillFromAnywhere(_, _, _, _, _)
FillFromAnywhere(st, sym, tf, gap, data) ==
    IF data = <<>> THEN st
    ELSE LET c == Head(data)
             st1 == IF c[6] <= 0 \/ c[5] <= 0 THEN st
                    ELSE InsertDoNothing(st, sym, tf, c)
         IN FillFromAnywhere(st1, sym, tf, gap, Tail(data))

\* fill_data_gap: the fetched candles inside the gap are inserted, those
\* with volume <= 0 or close <= 0 left out.
RECURSIVE FillFrom(_, _, _, _, _)
FillFrom(st, sym, tf, gap, data) ==
    IF data = <<>> THEN st
    ELSE LET c == Head(data)
             st1 == IF c[1] < gap.start_ts \/ c[1] > gap.end_ts THEN st
                    ELSE IF c[6] <= 0 \/ c[5] <= 0 THEN st
                    ELSE InsertDoNothing(st, sym, tf, c)
         IN FillFrom(st1, sym, tf, gap, Tail(data))

\* No backfill script is running.
NoBackfill ==
    [semaphore |-> 0, days_back |-> 0, total_errors |-> 0, task |-> <<>>]

ReconcilerIdle ==
    /\ rc = [pc |-> "off", now |-> 0, gaps |-> <<>>, cooperating |-> TRUE,
             filled |-> 0, duplicates_removed |-> 0, invalid_fixed |-> 0,
                 timeframe |-> "4h", api_calls_made |-> 0,
                 fetch_start |-> 0]
    /\ backfill = NoBackfill
    /\ registry = BasicTables
    /\ subscription = NoSubscription
    /\ processor_metrics = <<>>

\* check_data_integrity, step 1.
RemoveDuplicates ==
    /\ rc.pc = "dedup"
    /\ store' = RemoveDuplicatesOf(store, RcSymbol, RcTimeframe,
                                   rc.now - HoursBack * HourMs)
    /\ rc' = [rc EXCEPT !.pc = "purge",
                        !.duplicates_removed = Cardinality(store \ store')]
    /\ UNCHANGED <<candle_queue, dead_letter_queue, next_row_id, bp_pc,
                   batch, dlq_pc, dlq_item, abandoned, tvars, cvars, svars, backfill, registry, subscription,
                   processor_metrics>>

\* check_data_integrity, step 2.
FixInvalidData ==
    /\ rc.pc = "purge"
    /\ store' = FixInvalidDataOf(store, RcSymbol, RcTimeframe,
                                 rc.now - HoursBack * HourMs)
    /\ rc' = [rc EXCEPT !.pc = "detect",
                        !.invalid_fixed = Cardinality(store \ store')]
    /\ UNCHANGED <<candle_queue, dead_letter_queue, next_row_id, bp_pc,
                   batch, dlq_pc, dlq_item, abandoned, tvars, cvars, svars, backfill, registry, subscription,
                   processor_metrics>>

\* check_data_integrity, step 3: the gaps are detected.
DetectGaps ==
    /\ rc.pc = "detect"
    /\ LET gaps == DetectDataGaps(store, RcSymbol, RcTimeframe, rc.now)
       IN rc' = [rc EXCEPT !.gaps = gaps,
                           !.pc = IF gaps = <<>> THEN "done" ELSE "fill"]
    /\ UNCHANGED <<pvars, tvars, cvars, svars, backfill, registry, subscription,
                   processor_metrics>>

\* check_data_integrity, step 3: the next gap is filled from the venue,
\* which answers with a candle for every open time asked for; the pass
\* remembers whether all of them were valid.
FillWithData(gap, data, valid) ==
    \E d \in {data} :
        LET st == FillFrom([rows |-> store, next |-> next_row_id],
                           RcSymbol, RcTimeframe, gap, d)
        IN /\ store' = st.rows
           /\ next_row_id' = st.next
           /\ rc' = [rc EXCEPT
                !.gaps = Tail(@),
                !.api_calls_made = @ + 1,
                !.fetch_start = gap.start_ts - IntervalMs(RcTimeframe),
                !.filled = @ + (st.next - next_row_id),
                !.cooperating = @ /\ valid,
                !.pc = IF Tail(rc.gaps) = <<>> THEN "done" ELSE "fill"]

FillWith(gap, asked, f) ==
    FillWithData(gap,
                 FetchOHLCV(RcTimeframe,
                            gap.start_ts - IntervalMs(RcTimeframe),
                            rc.now, f),
                 \A t \in asked : f[t] = SampleA)

FillDataGap ==
    /\ rc.pc = "fill"
    /\ LET gap == Head(rc.gaps)
           asked == {t \in GridUpTo(RcTimeframe, rc.now) :
                        t >= gap.start_ts /\ t <= gap.end_ts}
       IN \E f \in [asked -> OracleSamples] : FillWith(gap, asked, f)
    /\ UNCHANGED <<candle_queue, dead_letter_queue, bp_pc, batch, dlq_pc,
                   dlq_item, abandoned, tvars, cvars, svars, backfill, registry, subscription,
                   processor_metrics>>

\* ------------------------------------------------ replay through upsert
TraceEnvelopes ==
    {Envelope(BTC, "4H", ts, s) : ts \in Timestamps, s \in {SampleA, SampleB}}

SeqsUpTo(S, n) == UNION {[1..k -> S] : k \in 1..n}

\* The whole sequence is pushed (again) once the previous pass has drained.
Replay ==
    /\ replays < MaxReplays
    /\ candle_queue = <<>>
    /\ bp_pc = "pop"
    /\ candle_queue' = trace
    /\ replays' = replays + 1
    /\ UNCHANGED <<dead_letter_queue, store, next_row_id, bp_pc, batch,
                   dlq_pc, dlq_item, abandoned, trace, cvars, svars, rvars>>

UpsertInit ==
    /\ PersisterInit
    /\ AutoStarted
    /\ ReconcilerIdle
    /\ trace \in SeqsUpTo(TraceEnvelopes, MaxTraceLen)
    /\ replays = 0

UpsertNext ==
    \/ Replay
    \/ BatchPop
    \/ BatchRpop
    \/ ProcessBatchCommit

UpsertSpec == UpsertInit /\ [][UpsertNext]_vars

\* ---------------------------------------------------------------- C1
Drained == candle_queue = <<>> /\ bp_pc = "pop"

\* The last envelope of the sequence with key k.
LastFor(s, k) ==
    s[CHOOSE i \in 1..Len(s) :
        /\ KeyOf(s[i]) = k
        /\ \A j \in (i + 1)..Len(s) : KeyOf(s[j]) # k]

TraceKeys(s) == {KeyOf(s[i]) : i \in 1..Len(s)}

SameOHLCV(r, e) ==
    /\ r.open = e.open /\ r.high = e.high /\ r.low = e.low
    /\ r.close = e.close /\ r.volume = e.volume

\* C1: after every complete pass of the sequence through the upsert, the
\* first as well as each further one, the table holds exactly one row per
\* key of the sequence, with the OHLCV of the last envelope for that key.
C1_IdempotentIngest ==
    (Drained /\ replays >= 1) =>
        /\ {RowKey(r) : r \in store} = TraceKeys(trace)
        /\ \A k \in TraceKeys(trace) :
            /\ Cardinality({r \in store : RowKey(r) = k}) = 1
            /\ \A r \in store : RowKey(r) = k => SameOHLCV(r, LastFor(trace, k))

C1_Witness ==
    /\ Drained /\ replays = 2
    /\ \E i, j \in 1..Len(trace) :
        /\ i < j /\ KeyOf(trace[i]) = KeyOf(trace[j])
        /\ trace[i].close # trace[j].close

\* ------------------------------------------- stream to store (pipeline)
Init ==
    /\ PersisterInit
    /\ AutoStarted
    /\ ReconcilerIdle
    /\ trace = <<>>
    /\ replays = 0

\* The auto-started worker streams; the persister drains, fails, retries.
Next ==
    \/ TaskStart(1)
    \/ ConnectOK(1)
    \/ StatusConnectedDone(1)
    \/ SendOK(1)
    \/ ReceiveMessage(1, MaxReconnects)
    \/ ProcessCandle(1)
    \/ BatchPop
    \/ BatchRpop
    \/ BatchTimeout
    \/ ProcessBatchCommit
    \/ ProcessBatchFail
    \/ DlqPop
    \/ DlqRepush

Spec == Init /\ [][Next]_vars

\* Both loops of the persister keep running: a pending pop, transaction or
\* re-push is carried out.
PersisterStep ==
    \/ BatchPop
    \/ BatchRpop
    \/ ProcessBatchCommit
    \/ ProcessBatchFail
    \/ DlqPop
    \/ DlqRepush

LiveSpec == Spec /\ WF_vars(PersisterStep)

\* ---------------------------------------------------------------- C2
SameCandle(a, b) ==
    /\ KeyOf(a) = KeyOf(b)
    /\ a.open = b.open /\ a.high = b.high /\ a.low = b.low
    /\ a.close = b.close /\ a.volume = b.volume

InSeq(q, e) == \E i \in 1..Len(q) : SameCandle(q[i], e)
InStore(e) == \E r \in store : RowKey(r) = KeyOf(e)
InDlq(e) == InSeq(dead_letter_queue, e)
Abandoned(e) ==
    \E a \in abandoned : SameCandle(a, e) /\ a.retry_count = MAX_RETRIES

\* Nothing is on its way: the candle queue is empty, no batch is being
\* written and the DLQ loop holds no item.
Quiescent == candle_queue = <<>> /\ bp_pc = "pop" /\ dlq_pc = "pop"

Conserved ==
    \A e \in produced :
        \/ InStore(e) \/ InDlq(e) \/ Abandoned(e)
        \/ InSeq(candle_queue, e) \/ InSeq(batch, e)
        \/ InSeq(dlq_item, e)

Provisional(ts, o, h, l, c, v) ==
    \E cd \in WireCandles :
        /\ Len(cd) >= 9 /\ cd[9] # "1"
        /\ <<cd[1], cd[2], cd[3], cd[4], cd[5], cd[6]>> = <<ts, o, h, l, c, v>>

InFlight ==
    {candle_queue[i] : i \in 1..Len(candle_queue)}
    \cup {batch[i] : i \in 1..Len(batch)}
    \cup {dead_letter_queue[i] : i \in 1..Len(dead_letter_queue)}
    \cup {dlq_item[i] : i \in 1..Len(dlq_item)}

\* C3: no candle that came without the confirm flag is pushed to the candle
\* queue, travels through the persister or is a row of the store; a key
\* that was skipped as unconfirmed holds the confirmed candle's values.
C3_UnconfirmedSuppressed ==
    /\ \A e \in InFlight \cup produced :
        ~Provisional(e.timestamp, e.open, e.high, e.low, e.close, e.volume)
    /\ \A r \in store :
        ~Provisional(r.timestamp_ms, r.open, r.high, r.low, r.close, r.volume)

\* An unconfirmed candle was skipped and a row of the same key is stored.
C3_Witness ==
    \E r \in store :
        /\ r.timestamp_ms \in log_skipped
        /\ r.symbol = BTC /\ r.timeframe = "4H"

\* ------------------------------------------- one worker under failures
\* The auto-started worker while nobody stops it: connects and subscribes
\* succeed or fail, the peer closes the stream, message processing raises.
CollectorNext ==
    \/ TaskStart(1)
    \/ ConnectOK(1)
    \/ ConnectFail(1)
    \/ StatusConnectedDone(1)
    \/ SendOK(1)
    \/ SendFail(1)
    \/ ReceiveMessage(1, MaxReconnects)
    \/ ProcessError(1)
    \/ ListenEnd(1, MaxReconnects)
    \/ StatusDisconnectedDone(1, MaxReconnects)
    \/ CloseDone(1, MaxReconnects)
    \/ SleepDone(1)

CollectorSpec == Init /\ [][CollectorNext]_vars

\* The event loop keeps running the task: a pending status update, close
\* or sleep returns.
CollectorLiveSpec == CollectorSpec /\ WF_vars(CollectorNext)

RECURSIVE Pow2(_)
Pow2(n) == IF n <= 0 THEN 1 ELSE 2 * Pow2(n - 1)

Sleeping == worker[1].pc = "sleeping"

\* ---------------------------------------------------------------- C6
\* C6 as claimed: the sleep after the k-th failed attempt in a row is
\* min(INITIAL * 2^(k-1), MAX), for a fresh and for a just-reset worker.
C6_BackoffFromReset ==
    (Sleeping /\ worker[1].fails >= 1) =>
        worker[1].last_sleep =
            Min(INITIAL_RECONNECT_DELAY * Pow2(worker[1].fails - 1),
                MAX_RECONNECT_DELAY)

\* C6 as amended: the sleep after the k-th failed attempt in a row is
\* min(INITIAL * 2^(k-1), MAX) for a worker that never streamed and
\* min(INITIAL * 2^k, MAX) after a stream (whose end has slept INITIAL
\* already); no sleep exceeds MAX, and between consecutive failures the
\* sleep does not decrease.
C6_BackoffSequence ==
    /\ (Sleeping /\ worker[1].fails >= 1) =>
            worker[1].last_sleep =
                Min(INITIAL_RECONNECT_DELAY
                        * Pow2(worker[1].base + worker[1].fails - 1),
                    MAX_RECONNECT_DELAY)
    /\ Sleeping => worker[1].last_sleep = worker[1].reconnect_delay
    /\ worker[1].last_sleep <= MAX_RECONNECT_DELAY
    /\ (Sleeping /\ worker[1].fails >= 2) =>
            worker[1].prev_sleep <= worker[1].last_sleep

\* Five failures in a row of a fresh worker, the fifth sleeping 80.
C6_Witness ==
    /\ Sleeping /\ worker[1].base = 0
    /\ worker[1].fails = 5
    /\ worker[1].last_sleep = 80 /\ worker[1].prev_sleep = 40

\* ---------------------------------------------------------------- C7
\* C7: once a stream is entered the delay is INITIAL_RECONNECT_DELAY, and
\* the sleep that follows the end of that stream is
\* INITIAL_RECONNECT_DELAY whatever the sleep before it was.
C7_BackoffReset ==
    /\ worker[1].pc = "listening" =>
            worker[1].reconnect_delay = INITIAL_RECONNECT_DELAY
    /\ (Sleeping /\ worker[1].base = 1 /\ worker[1].fails = 0) =>
            worker[1].last_sleep = INITIAL_RECONNECT_DELAY

\* The stream was entered after the delay had grown to the cap.
C7_Witness ==
    /\ Sleeping /\ worker[1].base = 1 /\ worker[1].fails = 0
    /\ worker[1].prev_sleep = MAX_RECONNECT_DELAY
    /\ worker[1].last_sleep = INITIAL_RECONNECT_DELAY

\* ---------------------------------------------------------------- C8
\* The worker stands after a failure or a stream end, below the model's
\* reconnect bound.
Failing ==
    /\ worker[1].pc \in {"status_disconnected", "closing", "sleeping"}
    /\ worker[1].reconnect_count < MaxReconnects

\* C8: while stop() is not called the run loop never ends, and after every
\* connect failure, subscribe failure, peer close or processing error the
\* worker attempts to connect again.
C8_StoppedOnlyByStop ==
    /\ [](worker[1].pc # "done" /\ (worker[1].pc # "created" => worker[1].is_running))
    /\ Failing ~> (worker[1].pc = "connecting")
    /\ (worker[1].pc = "listening" /\ worker[1].inbox # <<>>)
            ~> (worker[1].pc = "listening" /\ worker[1].inbox = <<>>)

\* Connecting again after several rounds that held a stream and failures.
C8_Witness ==
    /\ worker[1].pc = "connecting"
    /\ worker[1].reconnect_count >= 4
    /\ worker[1].base = 1 /\ worker[1].fails >= 2
    /\ msgs_sent >= 1

\* ------------------------------------------- supervisor under commands
SupervisorInit ==
    /\ PersisterInit
    /\ AutoStarted \/ NotStarted
    /\ ReconcilerIdle
    /\ trace = <<>>
    /\ replays = 0

\* The listener works through published commands; the workers it starts
\* connect, stream, are closed and cancelled.
SupervisorNext ==
    \/ Publish
    \/ SupWait
    \/ SupTake
    \/ SupInitDone
    \/ SupInitFail
    \/ SupStopCloseDone
    \/ SupStopStatusDone
    \/ SupAwaitDone
    \/ \E w \in Workers :
        \/ TaskStart(w)
        \/ ConnectOK(w)
        \/ StatusConnectedDone(w)
        \/ SendOK(w)
        \/ ListenEnd(w, SupReconnects)
        \/ CloseDone(w, SupReconnects)
        \/ SleepDone(w)
        \/ Cancelled(w)

SupervisorSpec == SupervisorInit /\ [][SupervisorNext]_vars

\* ---------------------------------------------------------------- C9
\* C9: after any sequence of subscribe and unsubscribe commands no symbol
\* has more than one worker whose run task is alive.
C9_OneWorkerPerSymbol ==
    \A sym \in Symbols : Cardinality(WorkersOf(sym)) <= 1

\* --------------------------------------------------------------- C10
\* C10: when an unsubscribe command for a symbol that had a worker has
\* been processed, that worker is not running, its socket is closed, its
\* run task has ended, and the dict holds neither the symbol's key nor its
\* task key.
C10_UnsubscribeStops ==
    (sup.last.action = "unsubscribe" /\ sup.last.victims # {}) =>
        /\ \A w \in sup.last.victims :
            /\ ~worker[w].is_running
            /\ ~worker[w].sock_open /\ worker[w].websocket = None
            /\ worker[w].pc = "done"
        /\ collectors[sup.last.symbol] = Absent
        /\ collectors[TaskKey(sup.last.symbol)] = Absent

\* ------------------------------------------------- reconciliation pass
\* The rows a pass may find: per open time of the venue none, a valid row
\* or a row whose high is below its low (the collector lets it through).
RowStates == {"absent", "valid", "invalid"}

StoreOf(g) ==
    {LET s == IF g[t] = "valid" THEN SampleA ELSE SampleHL
     IN [id |-> t \div IntervalMs(RcTimeframe) + 1, symbol |-> RcSymbol,
         timeframe |-> RcTimeframe, timestamp_ms |-> t,
         open |-> s.open, high |-> s.high, low |-> s.low,
         close |-> s.close, volume |-> s.volume] :
        t \in {x \in DOMAIN g : g[x] # "absent"}}

ReconcileInit ==
    /\ \E now \in Nows :
        /\ rc = [pc |-> "dedup", now |-> now, gaps |-> <<>>,
                 cooperating |-> TRUE, filled |-> 0,
                 duplicates_removed |-> 0, invalid_fixed |-> 0,
                 timeframe |-> "4h", api_calls_made |-> 0,
                 fetch_start |-> 0]
        /\ \E g \in [{t \in GridUpTo(RcTimeframe, now) :
                        t >= now - (HoursBack + 4) * HourMs} -> RowStates] :
            /\ store = StoreOf(g)
            /\ next_row_id = now \div IntervalMs(RcTimeframe) + 2
    /\ candle_queue = <<>> /\ dead_letter_queue = <<>>
    /\ bp_pc = "pop" /\ batch = <<>>
    /\ dlq_pc = "pop" /\ dlq_item = <<>> /\ abandoned = {}
    /\ NotStarted
    /\ trace = <<>>
    /\ replays = 0
    /\ backfill = NoBackfill
    /\ registry = BasicTables
    /\ subscription = NoSubscription
    /\ processor_metrics = <<>>

ReconcileNext ==
    \/ RemoveDuplicates
    \/ FixInvalidData
    \/ DetectGaps
    \/ FillDataGap

ReconcileSpec == ReconcileInit /\ [][ReconcileNext]_vars

\* ---------------------------------------------------------------- C4
\* C4: when a pass has completed against a venue that answered every
\* request with valid candles, a gap detection over the same window finds
\* no gap.
C4_GapFree ==
    (rc.pc = "done" /\ rc.cooperating) =>
        DetectDataGaps(store, RcSymbol, RcTimeframe, rc.now) = <<>>

\* ---------------------------------------------------------------- C5
\* C5: when a pass has completed, no row of the window violates a
\* data-model invariant, the rows the gap fill inserted included.
C5_InvariantClosure ==
    rc.pc = "done" =>
        \A r \in InWindowRows(store, RcSymbol, RcTimeframe,
                              rc.now - HoursBack * HourMs) : ~Invalid(r)

\* ------------------------------------------------------------- shutdown
\* main(): the signal handler sets shutdown_event, main() leaves
\* "await shutdown_event.wait()" and runs its finally block.
FewCommands == 2

EndsWithTask(k) == k[Len(k)] = "_task"

RECURSIVE SeqOf(_)
SeqOf(S) == IF S = {} THEN <<>>
            ELSE LET k == CHOOSE x \in S : TRUE
                 IN <<k>> \o SeqOf(S \ {k})

\* list(collectors.keys()) without the keys that end in "_task".
KeysToStop ==
    SeqOf({k \in Keys : collectors[k] # Absent /\ ~EndsWithTask(k)})

\* Another task runs only while the listener is suspended or gone.
ListenerSuspended == sup.pc # "next"

\* main()'s finally block from the key at the head of todo up to its next
\* await: stop_collector_for_symbol of a key that is still in the dict up
\* to the first await of collector.stop(), or, with no key left, cancel()
\* of the listener task and "await task".
RECURSIVE MainProceedFrom(_, _, _)
MainProceedFrom(wk, s, todo) ==
    IF todo = <<>>
    THEN [sup |-> [s EXCEPT !.main_pc = "await_listener", !.todo = <<>>,
                            !.cancel = (s.pc \notin {"ended", "cancelled"})],
          worker |-> wk]
    ELSE LET sym == Head(todo)
             e == collectors[sym]
         IN IF e = Absent
            THEN MainProceedFrom(wk, s, Tail(todo))
            ELSE [sup |-> [s EXCEPT
                            !.main_pc = IF worker[e.id].websocket # None
                                        THEN "main_stop_close"
                                        ELSE "main_stop_status",
                            !.main_sym = sym, !.main_target = e.id,
                            !.todo = Tail(todo)],
                  worker |-> [wk EXCEPT ![e.id].is_running = FALSE]]

MainProceed(s, todo) == MainProceedFrom(worker, s, todo)

\* signal_handler: shutdown_event.set().
Signal ==
    /\ sup.main_pc = "run"
    /\ ListenerSuspended
    /\ sup' = [sup EXCEPT !.shutdown = TRUE, !.main_pc = "woken"]
    /\ UNCHANGED <<collectors, cmd_queue, pvars, tvars, cvars, rvars>>

\* main() resumes from shutdown_event.wait() and enters finally.
MainFinally ==
    /\ sup.main_pc = "woken"
    /\ ListenerSuspended /\ NoCreated
    /\ LET r == MainProceed(sup, KeysToStop)
       IN sup' = r.sup /\ worker' = r.worker
    /\ UNCHANGED <<collectors, cmd_queue, msgs_sent, log_skipped, produced,
                   pvars, tvars, rvars>>

\* main() in stop(): websocket.close() is through, websocket = None.
MainStopCloseDone ==
    /\ sup.main_pc = "main_stop_close"
    /\ ListenerSuspended /\ NoCreated
    /\ worker' = [worker EXCEPT ![sup.main_target].websocket = None,
                                ![sup.main_target].sock_open = FALSE]
    /\ sup' = [sup EXCEPT !.main_pc = "main_stop_status"]
    /\ UNCHANGED <<collectors, cmd_queue, msgs_sent, log_skipped, produced,
                   pvars, tvars, rvars>>

\* main() in stop_collector_for_symbol after stop(): "del collectors[symbol]"
\* raises KeyError if the listener deleted the key meanwhile; a collector
\* under the task key has no cancel().  Both end the function in "except
\* Exception"; otherwise the task is cancelled and awaited.
MainStopStatusDone ==
    /\ sup.main_pc = "main_stop_status"
    /\ ListenerSuspended /\ NoCreated
    /\ LET sym == sup.main_sym
           t == collectors[TaskKey(sym)]
           stopped == [worker EXCEPT
                         ![sup.main_target] = UpdateStatus(@, "stopped")]
       IN IF collectors[sym] = Absent
          THEN /\ LET r == MainProceedFrom(stopped, sup, sup.todo)
                  IN sup' = r.sup /\ worker' = r.worker
               /\ UNCHANGED collectors
          ELSE /\ collectors' = [collectors EXCEPT ![sym] = Absent]
               /\ IF t = Absent \/ t.kind = "collector"
                  THEN LET r == MainProceedFrom(stopped, sup, sup.todo)
                       IN sup' = r.sup /\ worker' = r.worker
                  ELSE /\ sup' = [sup EXCEPT !.main_pc = "main_await_task",
                                             !.main_target = t.id]
                       /\ worker' = [stopped EXCEPT ![t.id].cancel =
                                         (worker[t.id].pc # "done")]
    /\ UNCHANGED <<cmd_queue, msgs_sent, log_skipped, produced, pvars,
                   tvars, rvars>>

\* main() in stop_collector_for_symbol: "await task" is through, the task
\* key is deleted (KeyError, caught, if it is gone already).
MainAwaitDone ==
    /\ sup.main_pc = "main_await_task"
    /\ ListenerSuspended
    /\ worker[sup.main_target].pc = "done"
    /\ collectors' = [collectors EXCEPT ![TaskKey(sup.main_sym)] = Absent]
    /\ LET r == MainProceed(sup, sup.todo)
       IN sup' = r.sup /\ worker' = r.worker
    /\ UNCHANGED <<cmd_queue, msgs_sent, log_skipped, produced, pvars,
                   tvars, rvars>>

\* subscription_listener: a message arrives after shutdown_event was set,
\* the loop breaks and the task ends.
SupBreak ==
    /\ sup.pc = "next" \/ (sup.pc = "waiting" /\ NoCreated)
    /\ sup.shutdown
    /\ cmd_queue # <<>>
    /\ cmd_queue' = Tail(cmd_queue)
    /\ sup' = [sup EXCEPT !.pc = "ended", !.cancel = FALSE]
    /\ UNCHANGED <<collectors, pvars, tvars, cvars, rvars>>

\* CancelledError is raised at the listener's await.  In pubsub.listen()
\* and in initialize() it ends the task.  In collector.stop() the bare
\* "except:" swallows it and stop_collector_for_symbol goes on; at "await
\* task" "except asyncio.CancelledError: pass" swallows it, the task key
\* is deleted and the listener is back in its loop.
ListenerCancelled ==
    /\ sup.cancel
    /\ NoCreated
    /\ sup.pc \in {"waiting", "init", "stop_close", "stop_status",
                   "await_task"}
    /\ LET s == [sup EXCEPT !.cancel = FALSE]
       IN CASE sup.pc \in {"waiting", "init"} ->
                 /\ sup' = [s EXCEPT !.pc = "cancelled"]
                 /\ UNCHANGED <<worker, collectors>>
            [] sup.pc = "stop_close" ->
                 /\ sup' = [s EXCEPT !.pc = "stop_status"]
                 /\ worker' = [worker EXCEPT ![sup.target].websocket = None]
                 /\ UNCHANGED collectors
            [] sup.pc = "stop_status" -> StopDeleteAndCancel(s)
            [] sup.pc = "await_task" ->
                 /\ sup' = [s EXCEPT !.pc = "next",
                                     !.last = Finished(s.cmd, s.victims)]
                 /\ collectors' = [collectors EXCEPT
                                      ![TaskKey(s.cmd.symbol)] = Absent]
                 /\ UNCHANGED worker
    /\ UNCHANGED <<cmd_queue, msgs_sent, log_skipped, produced, pvars,
                   tvars, rvars>>

\* main(): the listener task is over; the health reporter is cancelled at
\* its await and main() returns.
MainAwaitListener ==
    /\ sup.main_pc = "await_listener"
    /\ sup.pc \in {"ended", "cancelled"}
    /\ sup' = [sup EXCEPT !.health = "cancelled", !.main_pc = "returned"]
    /\ UNCHANGED <<collectors, cmd_queue, pvars, tvars, cvars, rvars>>

PublishFew == PublishFrom(Commands, FewCommands)

ShutdownNext ==
    \/ PublishFew
    \/ SupWait
    \/ SupTake
    \/ SupInitDone
    \/ SupInitFail
    \/ SupStopCloseDone
    \/ SupStopStatusDone
    \/ SupAwaitDone
    \/ SupBreak
    \/ ListenerCancelled
    \/ Signal
    \/ MainFinally
    \/ MainStopCloseDone
    \/ MainStopStatusDone
    \/ MainAwaitDone
    \/ MainAwaitListener
    \/ \E w \in Workers :
          \/ TaskStart(w)
          \/ ConnectOK(w)
          \/ StatusConnectedDone(w)
          \/ SendOK(w)
          \/ ListenEnd(w, SupReconnects)
          \/ CloseDone(w, SupReconnects)
          \/ SleepDone(w)
          \/ Cancelled(w)

ShutdownSpec == SupervisorInit /\ [][ShutdownNext]_vars

\* C11: once main() has returned after the termination signal, no worker
\* is running, the dict of workers is empty, and the listener and the
\* health reporter are over.
C11_ShutdownStopsAll ==
    sup.main_pc = "returned" =>
        /\ \A w \in Workers : ~Live(w)
        /\ \A k \in Keys : collectors[k] = Absent
        /\ sup.pc \in {"ended", "cancelled"}
        /\ sup.health = "cancelled"

\* ------------------------------------------- persister, every failure
\* The pipeline of Spec with the lookups of process_batch failing as well
\* as its executemany.
FaultNext ==
    \/ Next
    \/ ProcessBatchLookupFail

FaultSpec == Init /\ [][FaultNext]_vars

\* The items of a batch as send_to_dlq pushes them are the tail of the DLQ.
DlqTail(q, items) ==
    /\ Len(q) >= Len(items)
    /\ SubSeq(q, Len(q) - Len(items) + 1, Len(q)) = DlqItems(items)

\* C12: a step that ends process_batch either leaves every item of the
\* batch as a row of the store or has pushed every item of the batch to
\* dead_letter_queue with the store untouched.
C12_BatchAtomicity ==
    [][(bp_pc = "process" /\ bp_pc' = "pop") =>
          \/ \A i \in 1..Len(batch) :
                \E r \in store' :
                    /\ RowKey(r) = KeyOf(batch[i])
                    /\ \E j \in 1..Len(batch) :
                          /\ KeyOf(batch[j]) = KeyOf(batch[i])
                          /\ r.open = batch[j].open /\ r.high = batch[j].high
                          /\ r.low = batch[j].low /\ r.close = batch[j].close
                          /\ r.volume = batch[j].volume
          \/ /\ store' = store
             /\ dead_letter_queue' # dead_letter_queue
             /\ DlqTail(dead_letter_queue', batch)]_vars

FaultStep == PersisterStep \/ ProcessBatchLookupFail

\* batch_processor and dead_letter_processor are tasks of one event loop
\* that loop while is_running: each is resumed whenever its BRPOP, its
\* transaction or its sleep is over.
FaultLiveSpec == FaultSpec /\ WF_vars(FaultStep)

\* ---------------------------------------------------------------- C13
\* The envelopes that may be written again: in the candle queue, in the
\* batch at hand or held by the DLQ loop during its sleep.
Retrying ==
    {candle_queue[i] : i \in 1..Len(candle_queue)}
    \cup {batch[i] : i \in 1..Len(batch)}
    \cup {dlq_item[i] : i \in 1..Len(dlq_item)}

Idle ==
    /\ candle_queue = <<>> /\ dead_letter_queue = <<>>
    /\ batch = <<>> /\ dlq_item = <<>>

\* C13: a failed write pushes each item of the batch to the DLQ with its
\* retry_count raised by exactly one; only envelopes with retry_count <
\* MAX_RETRIES are on their way to another write; no envelope carries more
\* than MAX_RETRIES; what the DLQ loop gave up has retry_count =
\* MAX_RETRIES; and the queues drain for good: nothing cycles forever.
C13_BoundedRetries ==
    /\ [][(bp_pc = "process" /\ bp_pc' = "pop"
                /\ dead_letter_queue' # dead_letter_queue) =>
            LET n == Len(batch)
                m == Len(dead_letter_queue)
            IN /\ Len(dead_letter_queue') = m + n
               /\ \A i \in 1..n :
                    dead_letter_queue'[m + i] =
                        [batch[i] EXCEPT !.retry_count = batch[i].retry_count + 1]]_vars
    /\ [](\A e \in Retrying : e.retry_count < MAX_RETRIES)
    /\ [](\A e \in InFlight \cup abandoned : e.retry_count <= MAX_RETRIES)
    /\ [](\A e \in abandoned : e.retry_count = MAX_RETRIES)
    /\ <>[]Idle

\* A candle was given up after MAX_RETRIES failed writes and is no row.
C13_Witness ==
    /\ Idle
    /\ \E a \in abandoned : a.retry_count = MAX_RETRIES /\ ~InStore(a)

\* ------------------------------------------- one failure, then success
\* The collector has pushed the envelopes of trace, at most one batch; the
\* database fails the first write of the batch and accepts every later one.
RetryInit ==
    /\ trace \in SeqsUpTo(TraceEnvelopes, BATCH_SIZE)
    /\ trace # <<>>
    /\ candle_queue = trace
    /\ dead_letter_queue = <<>>
    /\ store = {}
    /\ next_row_id = 1
    /\ bp_pc = "pop"
    /\ batch = <<>>
    /\ dlq_pc = "pop"
    /\ dlq_item = <<>>
    /\ abandoned = {}
    /\ AutoStarted
    /\ ReconcilerIdle
    /\ replays = 0

FirstAttempt == \A i \in 1..Len(batch) : batch[i].retry_count = 0

FailFirstAttempt == FirstAttempt /\ ProcessBatchFail

CommitRetry == ~FirstAttempt /\ ProcessBatchCommit

RetryNext ==
    \/ BatchPop
    \/ BatchRpop
    \/ FailFirstAttempt
    \/ CommitRetry
    \/ DlqPop
    \/ DlqRepush

RetrySpec == RetryInit /\ [][RetryNext]_vars

\* The two loops of the persister are resumed whenever they can go on.
RetryLiveSpec == RetrySpec /\ WF_vars(RetryNext)

\* ---------------------------------------------------------------- C14
OnTheWay ==
    Len(candle_queue) + Len(batch) + Len(dead_letter_queue) + Len(dlq_item)

\* C14: when the write of a batch fails once and then succeeds, every
\* envelope is re-pushed to the candle queue once and alone, with
\* retry_count = 1; no envelope is ever doubled or carries another count
\* than 0 or 1; and in the end both queues are empty, nothing was given up
\* and the store holds exactly one row per key of the batch, with the
\* values of the batch's last envelope for that key.
C14_RetrySucceeds ==
    /\ [][Len(candle_queue') > Len(candle_queue) =>
            /\ candle_queue' = Append(candle_queue, dlq_item[1])
            /\ dlq_item[1].retry_count = 1
            /\ OnTheWay' = OnTheWay]_vars
    /\ [](OnTheWay <= Len(trace))
    /\ [](\A e \in InFlight : e.retry_count \in {0, 1})
    /\ [](\A r \in store : Cardinality({q \in store : RowKey(q) = RowKey(r)}) = 1)
    /\ <>[](/\ Idle /\ abandoned = {}
            /\ {RowKey(r) : r \in store} = TraceKeys(trace)
            /\ \A r \in store : SameOHLCV(r, LastFor(trace, RowKey(r))))

\* One envelope of a failed batch of two is a row after its retry while
\* the other waits in the DLQ with retry_count = 1.
C14_Witness ==
    /\ Len(trace) = 2
    /\ \E r \in store : RowKey(r) = KeyOf(trace[1])
    /\ Len(dead_letter_queue) = 1
    /\ dead_letter_queue[1].retry_count = 1
    /\ SameCandle(dead_letter_queue[1], trace[2])

\* -------------------------------------------- dedup and purge of a table
\* Rows a table may hold before a pass: a key with two rows and one with
\* three, an invalid row, a row off the timeframe's grid, a row at the
\* earliest cutoff, duplicates before the cutoff and duplicates of another
\* timeframe, and two rows of one key of another symbol, one of them
\* invalid.
Row(id, tf, ts, s) ==
    [id |-> id, symbol |-> RcSymbol, timeframe |-> tf, timestamp_ms |-> ts,
     open |-> s.open, high |-> s.high, low |-> s.low, close |-> s.close,
     volume |-> s.volume]

TableRows ==
    {Row(10, RcTimeframe, 8 * HourMs, SampleA),
     Row(11, RcTimeframe, 8 * HourMs, SampleB),
     Row(12, RcTimeframe, 12 * HourMs, SampleHL),
     Row(13, RcTimeframe, 0, SampleA),
     Row(14, RcTimeframe, 0, SampleB),
     Row(15, RcTimeframe, 13 * HourMs, SampleA),
     Row(16, "1h", 8 * HourMs, SampleA),
     Row(17, "1h", 8 * HourMs, SampleB),
     Row(18, RcTimeframe, 4 * HourMs, SampleV0),
     Row(19, RcTimeframe, 4 * HourMs, SampleA),
     [Row(8, RcTimeframe, 8 * HourMs, SampleV0)
        EXCEPT !.symbol = <<"ETH-USDT-SWAP">>],
     [Row(9, RcTimeframe, 8 * HourMs, SampleA)
        EXCEPT !.symbol = <<"ETH-USDT-SWAP">>]}

TableInit ==
    /\ \E now \in Nows :
        rc = [pc |-> "dedup", now |-> now, gaps |-> <<>>,
              cooperating |-> TRUE, filled |-> 0,
              duplicates_removed |-> 0, invalid_fixed |-> 0,
                 timeframe |-> "4h", api_calls_made |-> 0,
                 fetch_start |-> 0]
    /\ store \in SUBSET TableRows
    /\ next_row_id = 20
    /\ candle_queue = <<>> /\ dead_letter_queue = <<>>
    /\ bp_pc = "pop" /\ batch = <<>>
    /\ dlq_pc = "pop" /\ dlq_item = <<>> /\ abandoned = {}
    /\ NotStarted
    /\ trace = <<>>
    /\ replays = 0
    /\ backfill = NoBackfill
    /\ registry = BasicTables
    /\ subscription = NoSubscription
    /\ processor_metrics = <<>>

TableNext ==
    \/ RemoveDuplicates
    \/ FixInvalidData

TableSpec == TableInit /\ [][TableNext]_vars

\* ---------------------------------------------------------------- C15
Cutoff == rc.now - HoursBack * HourMs

Window == InWindowRows(store, RcSymbol, RcTimeframe, Cutoff)

\* C15: remove_duplicates deletes, of every key of the window with more
\* than one row, all rows but the one with the least id, and nothing else.
C15_DedupKeepsMinId ==
    [][(rc.pc = "dedup" /\ rc'.pc = "purge") =>
         /\ store' \subseteq store
         /\ \A r \in store :
              IF r \in Window
                 /\ \E q \in Window : q # r /\ RowKey(q) = RowKey(r)
              THEN r \in store' <=>
                     \A q \in store : RowKey(q) = RowKey(r) => r.id <= q.id
              ELSE r \in store']_vars

\* The rows 10 and 11 shared a key: 10 is left, 11 is deleted.
C15_Witness ==
    /\ rc.pc = "purge" /\ rc.duplicates_removed = 1
    /\ \E r \in store : r.id = 10
    /\ \A r \in store : r.id # 11 /\ r.id \notin {18, 19}

\* ---------------------------------------------------------------- C16
OffGrid(r) == r.timestamp_ms % IntervalMs(r.timeframe) # 0

\* C16: fix_invalid_data deletes every row of the window with a
\* non-positive price or volume, with high below low, open or close, with
\* low above open or close, or with a timestamp off the timeframe's grid.
C16_PurgeDeletesViolators ==
    [][(rc.pc = "purge" /\ rc'.pc = "detect") =>
         \A r \in Window : (Invalid(r) \/ OffGrid(r)) => r \notin store']_vars

\* ------------------------------------------------- the writers of rows
\* What the venue's REST API may answer for a candle, the candles that a
\* validation has to reject included.
RestSamples == {SampleA, SampleHL, SampleV0, SampleC0}

\* A fill without the validation of volume and close.
RECURSIVE InsertCandlesUnchecked(_, _, _, _)
InsertCandlesUnchecked(st, sym, tf, data) ==
    IF data = <<>> THEN st
    ELSE InsertCandlesUnchecked(InsertDoNothing(st, sym, tf, Head(data)),
                                sym, tf, Tail(data))

\* insert_candles_batch: the candles with volume <= 0 or close <= 0 are
\* left out, the others inserted with ON CONFLICT DO NOTHING.
RECURSIVE InsertCandlesBatchOf(_, _, _, _)
InsertCandlesBatchOf(st, sym, tf, data) ==
    IF data = <<>> THEN st
    ELSE LET c == Head(data)
             st1 == IF c[6] <= 0 \/ c[5] <= 0 THEN st
                    ELSE InsertDoNothing(st, sym, tf, c)
         IN InsertCandlesBatchOf(st1, sym, tf, Tail(data))

BackfillCandles ==
    {<<T1, s.open, s.high, s.low, s.close, s.volume>> : s \in RestSamples}

\* The historical backfill runs before the stream is started.
InsertCandlesBatch ==
    /\ rc.pc = "off"
    /\ worker[1].pc = "created"
    /\ \E data \in SeqsUpTo(BackfillCandles, 2) :
        LET st == InsertCandlesBatchOf([rows |-> store, next |-> next_row_id],
                                       RcSymbol, RcTimeframe, data)
        IN /\ store' = st.rows
           /\ next_row_id' = st.next
    /\ rc' = [rc EXCEPT !.pc = "backfilled"]
    /\ UNCHANGED <<candle_queue, dead_letter_queue, bp_pc, batch, dlq_pc,
                   dlq_item, abandoned, tvars, cvars, svars, backfill, registry, subscription,
                   processor_metrics>>

\* The maintenance pass is started once the stream has been written.
StartPass ==
    /\ rc.pc \in {"off", "backfilled"}
    /\ msgs_sent = MaxMsgs /\ worker[1].inbox = <<>>
    /\ candle_queue = <<>> /\ dead_letter_queue = <<>>
    /\ bp_pc = "pop" /\ dlq_pc = "pop"
    /\ \E now \in Nows : rc' = [rc EXCEPT !.pc = "dedup", !.now = now]
    /\ UNCHANGED <<pvars, tvars, cvars, svars, backfill, registry, subscription,
                   processor_metrics>>

\* fill_data_gap against a venue that answers at most one candle of a
\* request with other values than a valid candle's.
FillDataGapOneBad ==
    /\ rc.pc = "fill"
    /\ LET gap == Head(rc.gaps)
           asked == {t \in GridUpTo(RcTimeframe, rc.now) :
                        t >= gap.start_ts /\ t <= gap.end_ts}
       IN \E bad \in asked, s \in RestSamples :
            FillWith(gap, asked, [t \in asked |-> IF t = bad THEN s ELSE SampleA])
    /\ UNCHANGED <<candle_queue, dead_letter_queue, bp_pc, batch, dlq_pc,
                   dlq_item, abandoned, tvars, cvars, svars, backfill, registry, subscription,
                   processor_metrics>>

WriteNext ==
    \/ InsertCandlesBatch
    \/ Next
    \/ StartPass
    \/ RemoveDuplicates
    \/ FixInvalidData
    \/ DetectGaps
    \/ FillDataGapOneBad

WriteSpec == Init /\ [][WriteNext]_vars

\* ---------------------------------------------------------------- C17
\* C17 as claimed: every row that a step writes or overwrites satisfies
\* all the price and volume invariants.
C17_WritesSatisfyInvariants ==
    [][\A r \in store' \ store : ~Invalid(r)]_vars

\* C17 as amended: every row that a step writes or overwrites has
\* volume > 0 and close > 0.
C17_WritesHaveVolumeAndClose ==
    [][\A r \in store' \ store : r.volume > 0 /\ r.close > 0]_vars

\* Rows with high below low are in the table from the stream, from the
\* backfill or the gap fill of the pass, and the pass is complete.
C17_Witness ==
    /\ rc.pc = "done"
    /\ \E r \in store : r.timeframe = "4H" /\ r.high < r.low
    /\ \E r \in store : r.timeframe = RcTimeframe /\ r.high < r.low

\* ------------------------------------------------------ the batch loop
\* The collector pushes the envelopes of trace one by one while the batch
\* loop and the DLQ loop run.
PushTrace ==
    /\ trace # <<>>
    /\ candle_queue' = Append(candle_queue, Head(trace))
    /\ trace' = Tail(trace)
    /\ UNCHANGED <<dead_letter_queue, store, next_row_id, bp_pc, batch,
                   dlq_pc, dlq_item, abandoned, replays, cvars, svars, rvars>>

BatchNext ==
    \/ PushTrace
    \/ BatchPop
    \/ BatchRpop
    \/ BatchTimeout
    \/ ProcessBatchCommit
    \/ ProcessBatchFail
    \/ DlqPop
    \/ DlqRepush

BatchSpec == UpsertInit /\ [][BatchNext]_vars

\* ---------------------------------------------------------------- C18
\* C18: a batch under way holds between 1 and BATCH_SIZE envelopes, fewer
\* than BATCH_SIZE while more pops are to come; every envelope that joins
\* the batch is the one removed from the head of the candle queue; the
\* collecting ends only on an empty queue or with a full batch; a write
\* starts only from such a batch; and while the queue is empty the loop
\* that waits in its blocking pop removes nothing and writes nothing.
C18_BatchingRule ==
    /\ [](bp_pc = "process" => Len(batch) \in 1..BATCH_SIZE)
    /\ [](bp_pc = "collect" => Len(batch) \in 1..(BATCH_SIZE - 1))
    /\ [](bp_pc = "pop" => batch = <<>>)
    /\ [][(batch' # batch /\ batch' # <<>>) =>
            /\ candle_queue # <<>>
            /\ batch' = Append(batch, Head(candle_queue))
            /\ candle_queue' = Tail(candle_queue)]_vars
    /\ [][(bp_pc = "collect" /\ bp_pc' = "process") =>
            candle_queue = <<>> \/ Len(batch') = BATCH_SIZE]_vars
    /\ [][store' # store => bp_pc = "process" /\ bp_pc' = "pop"]_vars
    /\ [][(bp_pc = "pop" /\ candle_queue = <<>>) =>
            /\ bp_pc' = "pop" /\ batch' = <<>> /\ store' = store
            /\ \/ candle_queue' = <<>>
               \/ Len(candle_queue') = 1]_vars

\* A full batch was taken from a queue that held more than BATCH_SIZE
\* envelopes: the rest stays in the queue.
C18_Witness ==
    /\ bp_pc = "process"
    /\ Len(batch) = BATCH_SIZE
    /\ candle_queue # <<>>

\* ---------------------------------------------------------------- C19
CanonicalTimeframes == {"1m", "5m", "15m", "1h", "4h", "1d"}

\* C19: every envelope the collector has pushed carries the canonical
\* lower-case timeframe whose rendered form names the channel the candle
\* was received on.
C19_CanonicalTimeframe ==
    \A e \in produced :
        \E tf \in CanonicalTimeframes :
            /\ e.timeframe = tf
            /\ <<"candle", ConvertTimeframeToOkxFormat(tf)>> \in StreamChannels

\* ------------------------------------------- subscribe with timeframes
PublishTimeframes == PublishFrom(SubscribeCommands, FewCommands)

SubscribeNext ==
    \/ PublishTimeframes
    \/ SupWait
    \/ SupTake
    \/ SupInitDone
    \/ SupInitFail
    \/ \E w \in Workers :
          \/ TaskStart(w)
          \/ ConnectOK(w)
          \/ StatusConnectedDone(w)
          \/ SendOK(w)
          \/ ListenEnd(w, SupReconnects)
          \/ CloseDone(w, SupReconnects)
          \/ SleepDone(w)

SubscribeSpec == SupervisorInit /\ [][SubscribeNext]_vars

\* C20: a worker that streams has requested exactly the channels of the
\* timeframes of the command it was created for, each with its symbol as
\* the instrument id.
C20_SubscribesRequested ==
    \A w \in Workers :
        worker[w].pc = "listening" =>
            worker[w].subscription_args =
                SubscriptionArgs(worker[w].symbol, worker[w].requested)

\* ------------------------------------------------------- scheduled runs
\* The crontab entry starts one process per scheduled time; each process
\* runs run_maintenance from its start to its end, and the processes take
\* turns at their awaits. rc is the run that takes the next step, rc.peer
\* the other one.
RunFields == {"pc", "now", "gaps", "cooperating", "filled",
              "duplicates_removed", "invalid_fixed", "timeframe",
              "api_calls_made", "fetch_start"}

NoRun ==
    [pc |-> "none", now |-> 0, gaps |-> <<>>, cooperating |-> TRUE,
     filled |-> 0, duplicates_removed |-> 0, invalid_fixed |-> 0,
                 timeframe |-> "4h", api_calls_made |-> 0,
                 fetch_start |-> 0]

Swap(r) ==
    [f \in RunFields \cup {"peer"} |->
        IF f = "peer" THEN [g \in RunFields |-> r[g]] ELSE r.peer[f]]

\* A run between its first statement and the end of check_data_integrity.
Active(r) == r.pc \in {"dedup", "purge", "detect", "fill"}

\* The rows the first run finds: a valid row per open time, except that
\* the newest open times may have none.
CronInit ==
    /\ \E now \in Nows :
        /\ rc = [pc |-> "dedup", now |-> now, gaps |-> <<>>,
                 cooperating |-> TRUE, filled |-> 0,
                 duplicates_removed |-> 0, invalid_fixed |-> 0,
                 timeframe |-> "4h", api_calls_made |-> 0,
                 fetch_start |-> 0,
                 peer |-> NoRun]
        /\ \E g \in [{t \in GridUpTo(RcTimeframe, now) :
                        t >= now - (HoursBack + 4) * HourMs} ->
                            {"absent", "valid"}] :
            /\ \A t \in DOMAIN g :
                    t < now - 3 * IntervalMs(RcTimeframe) => g[t] = "valid"
            /\ store = StoreOf(g)
            /\ next_row_id = now \div IntervalMs(RcTimeframe) + 2
    /\ candle_queue = <<>> /\ dead_letter_queue = <<>>
    /\ bp_pc = "pop" /\ batch = <<>>
    /\ dlq_pc = "pop" /\ dlq_item = <<>> /\ abandoned = {}
    /\ NotStarted
    /\ trace = <<>>
    /\ replays = 0
    /\ backfill = NoBackfill
    /\ registry = BasicTables
    /\ subscription = NoSubscription
    /\ processor_metrics = <<>>

\* The next scheduled time comes: the command of the crontab entry is
\* executed, whatever the state of the run started before.
CronFire ==
    /\ rc.peer.pc = "none"
    /\ \E now \in Nows :
        /\ now >= rc.now
        /\ rc' = [rc EXCEPT !.peer = [NoRun EXCEPT !.pc = "dedup",
                                                   !.now = now]]
    /\ UNCHANGED <<pvars, tvars, cvars, svars, backfill, registry, subscription,
                   processor_metrics>>

\* The other process takes the next step.
Switch ==
    /\ rc.peer.pc # "none"
    /\ rc' = Swap(rc)
    /\ UNCHANGED <<pvars, tvars, cvars, svars, backfill, registry, subscription,
                   processor_metrics>>

CronNext ==
    \/ CronFire
    \/ Switch
    \/ RemoveDuplicates
    \/ FixInvalidData
    \/ DetectGaps
    \/ FillDataGap

CronSpec == CronInit /\ [][CronNext]_vars

\* ---------------------------------------------------------------- C21
\* C21: a run started while another run is still active is skipped, so
\* no two runs are ever between their first and their last stage at the
\* same time.
C21_RunsDoNotOverlap == ~(Active(rc) /\ Active(rc.peer))

\* --------------------------------------------------------- status keys
\* The TTL of status:<symbol> and the period of the health reporter, in
\* seconds.
STATUS_TTL == 300
REPORT_INTERVAL == 30

\* Redis evicts status:<symbol> once its TTL has gone by without a SET.
Expire(r) ==
    IF r.status_key # <<>> /\ r.status_age * REPORT_INTERVAL >= STATUS_TTL
    THEN [r EXCEPT !.status_key = <<>>]
    ELSE r

\* get_status(): the word is derived from is_connected.
GetStatus(r) ==
    [status |-> IF r.is_connected THEN "connected" ELSE "disconnected",
     is_connected |-> r.is_connected]

\* health_reporter, one round of its loop, 30 s after the round before:
\* collector_status:<symbol> is set for every collector of the dict (the
\* auto-started worker here), then collector_service_status.
HealthReport ==
    /\ worker' = [w \in Workers |->
            IF worker[w].pc \in {"none", "done"} THEN worker[w]
            ELSE Expire([worker[w] EXCEPT
                    !.status_age = Min(@ + 1, STATUS_TTL \div REPORT_INTERVAL),
                    !.collector_status_key = <<GetStatus(worker[w])>>])]
    /\ UNCHANGED <<msgs_sent, log_skipped, produced, pvars, tvars, svars, rvars>>

StatusNext ==
    \/ CollectorNext
    \/ HealthReport

StatusSpec == Init /\ [][StatusNext]_vars

\* ---------------------------------------------------------------- C22
\* C22: while a worker that has come as far as subscribing is between
\* status updates, status:<symbol> exists and its connected flag is the
\* worker's is_connected.
C22_StatusEmission ==
    \A w \in Workers :
        worker[w].pc \in {"sending", "listening", "sleeping"} =>
            /\ worker[w].status_key # <<>>
            /\ worker[w].status_key[1].is_connected = worker[w].is_connected

\* ------------------------------------------------- historical backfill
\* run_backfill(symbols, timeframes, days_back): one task per entry of
\* symbols under asyncio.Semaphore(2); a task runs backfill_symbol, which
\* awaits backfill_symbol_timeframe for the timeframes in their order.
MaxSymbols == 3
RecordsPerBatch == 2
SymbolParallelism == 2
MaxDays == 2

BackfillTimeframes == <<"4h", "1d">>
BackfillSymbol(i) == <<"symbol", i>>

\* datetime.now() of the script, taken as one reading: the range begins
\* off the grids of the timeframes.
BackfillNow == 2 * 24 * HourMs + HourMs
BackfillStart(days_back) == BackfillNow - days_back * 24 * HourMs

NewTask(i) ==
    [symbol |-> BackfillSymbol(i), pc |-> "created", tf |-> 0,
     started |-> <<>>,
     progress |-> [k \in DOMAIN BackfillTimeframes |-> "none"],
     current_since |-> 0, end_ts |-> 0, ohlcv_data |-> <<>>,
     fetches |-> 0, since_log |-> <<>>]

Tasks == DOMAIN backfill.task

\* backfill_symbol, the for loop reaches timeframe number k: with no
\* timeframe left the function returns and the semaphore is released;
\* else backfill_symbol_timeframe marks the progress "in_progress",
\* computes the range and awaits get_existing_data_range.  fetches and
\* since_log record the fetches of the call and the since of each.
EnterTimeframe(b, i, k) ==
    IF k > Len(BackfillTimeframes)
    THEN [b EXCEPT !.semaphore = @ + 1,
                   !.task[i].pc = "done", !.task[i].tf = 0]
    ELSE [b EXCEPT !.task[i].pc = "range", !.task[i].tf = k,
                   !.task[i].started = Append(@, BackfillTimeframes[k]),
                   !.task[i].progress[k] = "in_progress",
                   !.task[i].end_ts = BackfillNow,
                   !.task[i].fetches = 0, !.task[i].since_log = <<>>]

\* backfill_symbol_timeframe leaves its while loop: status "completed",
\* and backfill_symbol goes on with the next timeframe.
CompleteTimeframe(b, i) ==
    EnterTimeframe([b EXCEPT !.task[i].progress[b.task[i].tf] = "completed"],
                   i, b.task[i].tf + 1)

\* "while current_since < end_ts": the next fetch or the end of the loop.
LoopTest(b, i) ==
    IF b.task[i].current_since < b.task[i].end_ts
    THEN [b EXCEPT !.task[i].pc = "fetch"]
    ELSE CompleteTimeframe(b, i)

\* An acquire that does not look at the semaphore's value.
BackfillTaskStartUnbounded(i) ==
    /\ i \in Tasks
    /\ backfill.task[i].pc = "created"
    /\ backfill' = EnterTimeframe([backfill EXCEPT !.semaphore = @ - 1], i, 1)
    /\ UNCHANGED <<pvars, tvars, cvars, svars, rc, registry, subscription,
                   processor_metrics>>

\* The task of a symbol takes its first step, "async with semaphore": it
\* goes on if the value is positive and waits otherwise.
BackfillTaskStart(i) ==
    /\ i \in Tasks
    /\ backfill.task[i].pc = "created"
    /\ backfill' =
        IF backfill.semaphore > 0
        THEN EnterTimeframe([backfill EXCEPT !.semaphore = @ - 1], i, 1)
        ELSE [backfill EXCEPT !.task[i].pc = "waiting"]
    /\ UNCHANGED <<pvars, tvars, cvars, svars, rc, registry, subscription,
                   processor_metrics>>

\* A release has woken the waiting task.
BackfillAcquired(i) ==
    /\ i \in Tasks
    /\ backfill.task[i].pc = "waiting"
    /\ backfill.semaphore > 0
    /\ backfill' = EnterTimeframe([backfill EXCEPT !.semaphore = @ - 1], i, 1)
    /\ UNCHANGED <<pvars, tvars, cvars, svars, rc, registry, subscription,
                   processor_metrics>>

\* get_existing_data_range has returned; current_since = start_ts.
BackfillRangeDone(i) ==
    /\ i \in Tasks
    /\ backfill.task[i].pc = "range"
    /\ backfill' = LoopTest([backfill EXCEPT
                        !.task[i].current_since =
                            BackfillStart(backfill.days_back)], i)
    /\ UNCHANGED <<pvars, tvars, cvars, svars, rc, registry, subscription,
                   processor_metrics>>

\* exchange.fetch_ohlcv(symbol, timeframe, since, limit): candles of the
\* venue that open at since or later, in ascending order, at most limit.
\* A venue that has them all returns the first limit of them; a venue may
\* also lack some or return none (an error makes fetch_historical_ohlcv
\* return the empty list).
VenueCandle(ts) ==
    <<ts, SampleA.open, SampleA.high, SampleA.low, SampleA.close,
      SampleA.volume>>

OpenTimes(tf, since) == {t \in GridUpTo(tf, BackfillNow) : t >= since}

PageOf(S) == [j \in 1..Cardinality(S) |-> VenueCandle(Ascending(S)[j])]

FullPage(tf, since) ==
    LET ts == Ascending(OpenTimes(tf, since))
    IN [j \in 1..Min(Len(ts), RecordsPerBatch) |-> VenueCandle(ts[j])]

AnyPages(tf, since) ==
    {PageOf(S) : S \in {X \in SUBSET OpenTimes(tf, since) :
                            Cardinality(X) <= RecordsPerBatch}}

\* fetch_historical_ohlcv has returned: an empty page breaks the loop,
\* another one is handed to insert_candles_batch.
BackfillFetchDone(i, full) ==
    /\ i \in Tasks
    /\ backfill.task[i].pc = "fetch"
    /\ LET r == backfill.task[i]
           tf == BackfillTimeframes[r.tf]
       IN \E page \in IF full THEN {FullPage(tf, r.current_since)}
                                ELSE AnyPages(tf, r.current_since) :
            LET b == [backfill EXCEPT
                        !.task[i].fetches = @ + 1,
                        !.task[i].since_log = Append(@, r.current_since),
                        !.task[i].ohlcv_data = page]
            IN backfill' = IF page = <<>> THEN CompleteTimeframe(b, i)
                           ELSE [b EXCEPT !.task[i].pc = "insert"]
    /\ UNCHANGED <<pvars, tvars, cvars, svars, rc, registry, subscription,
                   processor_metrics>>

\* A next page that starts at the open time of the last candle.
NextSinceSameCandle(data, tf) == data[Len(data)][1]

\* current_since = last_candle_time + timeframe_duration_ms
NextSince(data, tf) == data[Len(data)][1] + IntervalMs(tf)

\* insert_candles_batch has returned; the next since is computed and the
\* rate-limit sleep begins.
BackfillInsertDone(i) ==
    /\ i \in Tasks
    /\ backfill.task[i].pc = "insert"
    /\ LET r == backfill.task[i]
           tf == BackfillTimeframes[r.tf]
           st == InsertCandlesBatchOf([rows |-> store, next |-> next_row_id],
                                      r.symbol, tf, r.ohlcv_data)
       IN /\ store' = st.rows
          /\ next_row_id' = st.next
          /\ backfill' = [backfill EXCEPT
                !.task[i].current_since = NextSince(r.ohlcv_data, tf),
                !.task[i].pc = "sleep"]
    /\ UNCHANGED <<candle_queue, dead_letter_queue, bp_pc, batch, dlq_pc,
                   dlq_item, abandoned, tvars, cvars, svars, rc, registry, subscription,
                   processor_metrics>>

\* The sleep is over: the while condition is read again.
BackfillSleepDone(i) ==
    /\ i \in Tasks
    /\ backfill.task[i].pc = "sleep"
    /\ backfill' = LoopTest(backfill, i)
    /\ UNCHANGED <<pvars, tvars, cvars, svars, rc, registry, subscription,
                   processor_metrics>>

\* run_backfill is called with one to MaxSymbols symbols and one day
\* back; the gather has created their tasks.  The venue has every candle.
BackfillInit ==
    /\ \E n \in 1..MaxSymbols :
        backfill = [semaphore |-> SymbolParallelism, days_back |-> 1,
                    total_errors |-> 0,
                    task |-> [i \in 1..n |-> NewTask(i)]]
    /\ rc = [pc |-> "off", now |-> 0, gaps |-> <<>>, cooperating |-> TRUE,
             filled |-> 0, duplicates_removed |-> 0, invalid_fixed |-> 0,
                 timeframe |-> "4h", api_calls_made |-> 0,
                 fetch_start |-> 0]
    /\ registry = BasicTables
    /\ subscription = NoSubscription
    /\ processor_metrics = <<>>
    /\ PersisterInit
    /\ NotStarted
    /\ trace = <<>>
    /\ replays = 0

BackfillNext ==
    \E i \in 1..MaxSymbols :
        \/ BackfillTaskStart(i)
        \/ BackfillAcquired(i)
        \/ BackfillRangeDone(i)
        \/ BackfillFetchDone(i, TRUE)
        \/ BackfillInsertDone(i)
        \/ BackfillSleepDone(i)

BackfillSpec == BackfillInit /\ [][BackfillNext]_vars

\* ---------------------------------------------------------------- C23
InSemaphore(r) == r.pc \in {"range", "fetch", "insert", "sleep"}

IsPrefix(s, t) == Len(s) <= Len(t) /\ \A j \in 1..Len(s) : s[j] = t[j]

\* C23: at most two entries of the symbol list are being backfilled at
\* any instant; within one of them at most one timeframe is in progress,
\* and the timeframes are begun one after another in the given order.
C23_BackfillParallelism ==
    /\ Cardinality({i \in Tasks : InSemaphore(backfill.task[i])}) <= 2
    /\ \A i \in Tasks :
        LET r == backfill.task[i]
        IN /\ Cardinality({k \in DOMAIN r.progress :
                                r.progress[k] = "in_progress"}) <= 1
           /\ IsPrefix(r.started, BackfillTimeframes)
           /\ \A k \in DOMAIN r.progress :
                (r.progress[k] = "in_progress" /\ k > 1) =>
                    r.progress[k - 1] = "completed"

\* Two symbols are inside the semaphore, one of them in its second
\* timeframe, and a third one waits.
C23_Witness ==
    \E i, j, k \in Tasks :
        /\ InSemaphore(backfill.task[i]) /\ backfill.task[i].tf = 2
        /\ InSemaphore(backfill.task[j]) /\ i # j
        /\ backfill.task[k].pc = "waiting"

\* ----------------------------------------------------------- pagination
\* backfill_symbol_timeframe of one symbol for one to MaxDays days back,
\* against a venue that answers a fetch with any ascending page of its
\* candles from since on, the empty page included.
PaginateInit ==
    /\ \E d \in 1..MaxDays :
        backfill = [semaphore |-> SymbolParallelism, days_back |-> d,
                    total_errors |-> 0,
                    task |-> <<NewTask(1)>>]
    /\ rc = [pc |-> "off", now |-> 0, gaps |-> <<>>, cooperating |-> TRUE,
             filled |-> 0, duplicates_removed |-> 0, invalid_fixed |-> 0,
                 timeframe |-> "4h", api_calls_made |-> 0,
                 fetch_start |-> 0]
    /\ registry = BasicTables
    /\ subscription = NoSubscription
    /\ processor_metrics = <<>>
    /\ PersisterInit
    /\ NotStarted
    /\ trace = <<>>
    /\ replays = 0

PaginateNext ==
    \/ BackfillTaskStart(1)
    \/ BackfillRangeDone(1)
    \/ BackfillFetchDone(1, FALSE)
    \/ BackfillInsertDone(1)
    \/ BackfillSleepDone(1)

PaginateSpec == PaginateInit /\ [][PaginateNext]_vars

\* ---------------------------------------------------------------- C24
PageTask == backfill.task[1]

PageTimeframe == BackfillTimeframes[PageTask.tf]

LeavesLoop ==
    /\ PageTask.tf > 0
    /\ PageTask.progress[PageTask.tf] = "in_progress"
    /\ PageTask'.progress[PageTask.tf] = "completed"

\* C24: every fetch after the first of a call asks from the open time of
\* the last candle of the page before plus the interval, the since values
\* of a call increase strictly, a call makes no more fetches than there
\* are intervals in its range plus one, and the loop is left exactly when
\* since has reached the end of the range or the page is empty.
C24_PaginationTerminates ==
    /\ [](PageTask.pc = "fetch" /\ PageTask.fetches >= 1 =>
            PageTask.current_since =
                PageTask.ohlcv_data[Len(PageTask.ohlcv_data)][1]
                    + IntervalMs(PageTimeframe))
    /\ [](\A j \in 1..(Len(PageTask.since_log) - 1) :
            PageTask.since_log[j] < PageTask.since_log[j + 1])
    /\ [](PageTask.tf > 0 =>
            PageTask.fetches <=
                (PageTask.end_ts - BackfillStart(backfill.days_back))
                    \div IntervalMs(PageTimeframe) + 1)
    /\ [](PageTask.pc = "fetch" => PageTask.current_since < PageTask.end_ts)
    /\ [](PageTask.pc \in {"insert", "sleep"} => PageTask.ohlcv_data # <<>>)
    /\ [][LeavesLoop =>
            \/ PageTask'.current_since >= PageTask.end_ts
            \/ PageTask'.ohlcv_data = <<>>]_vars

\* A call is about to make its third fetch.
C24_Witness ==
    /\ PageTask.pc = "fetch"
    /\ PageTask.fetches = 2
    /\ PageTask.current_since > PageTask.since_log[2]

\* ------------------------------------------------------------ registry
\* The persister on batches whose symbols and timeframes are or are not in
\* the tables symbols and timeframes: "BTC-USDT" and "1H" are, the swap,
\* the option and "4H" are not.
RegistryEnvelopes ==
    {Envelope(sym, tf, ts, SampleA) :
        sym \in {<<"BTC-USDT">>, BTC, OPTION}, tf \in {"1H", "4H"},
        ts \in Timestamps}

RegistryInit ==
    /\ trace \in SeqsUpTo(RegistryEnvelopes, BATCH_SIZE)
    /\ candle_queue = trace
    /\ dead_letter_queue = <<>>
    /\ store = {}
    /\ next_row_id = 1
    /\ bp_pc = "pop"
    /\ batch = <<>>
    /\ dlq_pc = "pop"
    /\ dlq_item = <<>>
    /\ abandoned = {}
    /\ AutoStarted
    /\ ReconcilerIdle
    /\ replays = 0

RegistryNext ==
    \/ BatchPop
    \/ BatchRpop
    \/ ProcessBatchCommit
    \/ ProcessBatchLookups
    \/ DlqPop
    \/ DlqRepush

RegistrySpec == RegistryInit /\ [][RegistryNext]_vars

\* ---------------------------------------------------------------- C25
\* Every item has a row of its key with the values of an item of that key.
Persisted(items, rows) ==
    \A i \in 1..Len(items) :
        \E r \in rows :
            /\ RowKey(r) = KeyOf(items[i])
            /\ \E j \in 1..Len(items) :
                  /\ KeyOf(items[j]) = KeyOf(items[i])
                  /\ r.open = items[j].open /\ r.high = items[j].high
                  /\ r.low = items[j].low /\ r.close = items[j].close
                  /\ r.volume = items[j].volume

\* C25: whatever symbols and timeframes a batch names, the step that ends
\* process_batch leaves a row for every item, changes no table but the
\* candlestick table and hands nothing to the DLQ.
C25_UnknownNamesAccepted ==
    [][(bp_pc = "process" /\ bp_pc' = "pop") =>
          /\ Persisted(batch, store')
          /\ registry' = registry
          /\ dead_letter_queue' = dead_letter_queue]_vars

\* -------------------------------------------------------------- gateway
\* POST /api/v1/subscribe for one symbol: the key subscription:<symbol> is
\* set with ex=3600 and the request is published on collector:<symbol>.
GatewaySubscribe ==
    /\ sup.published < FewCommands
    /\ \E sym \in {BTC} :
        /\ subscription' = [subscription EXCEPT !.keys = @ \cup {sym}]
        /\ cmd_queue' = Append(cmd_queue,
                [action |-> "subscribe", symbol |-> sym,
                 timeframes |-> DEFAULT_TIMEFRAMES])
    /\ sup' = [sup EXCEPT !.published = @ + 1]
    /\ UNCHANGED <<collectors, pvars, tvars, cvars, rc, backfill, registry,
                   processor_metrics>>

\* Redis evicts a subscription key whose 3600 s have gone by.
SubscriptionExpires ==
    /\ \E sym \in subscription.keys :
        subscription' = [subscription EXCEPT !.keys = @ \ {sym}]
    /\ UNCHANGED <<svars, pvars, tvars, cvars, rc, backfill, registry,
                   processor_metrics>>

\* DELETE /api/v1/subscribe/{symbol}: the key is deleted; only "if
\* deleted" is the unsubscribe command published, else the answer is 404.
UnsubscribeSymbol ==
    /\ subscription.deletes < MaxCommands
    /\ \E sym \in {BTC} :
        LET deleted == sym \in subscription.keys
        IN /\ subscription' =
                [keys |-> subscription.keys \ {sym},
                 deletes |-> subscription.deletes + 1, symbol |-> sym,
                 status |-> IF deleted THEN 200 ELSE 404]
           /\ cmd_queue' =
                IF deleted
                THEN Append(cmd_queue, [action |-> "unsubscribe",
                                        symbol |-> sym, timeframes |-> <<>>])
                ELSE cmd_queue
    /\ UNCHANGED <<collectors, sup, pvars, tvars, cvars, rc, backfill,
                   registry, processor_metrics>>

\* The gateway's requests and the collector service that listens to them.
GatewayNext ==
    \/ GatewaySubscribe
    \/ SubscriptionExpires
    \/ UnsubscribeSymbol
    \/ SupWait
    \/ SupTake
    \/ SupInitDone
    \/ SupInitFail
    \/ SupStopCloseDone
    \/ SupStopStatusDone
    \/ SupAwaitDone
    \/ \E w \in Workers :
        \/ TaskStart(w)
        \/ ConnectOK(w)
        \/ StatusConnectedDone(w)
        \/ SendOK(w)
        \/ ListenEnd(w, SupReconnects)
        \/ CloseDone(w, SupReconnects)
        \/ SleepDone(w)
        \/ Cancelled(w)

GatewayInit ==
    /\ PersisterInit
    /\ NotStarted
    /\ ReconcilerIdle
    /\ trace = <<>>
    /\ replays = 0

GatewaySpec == GatewayInit /\ [][GatewayNext]_vars

\* ---------------------------------------------------------------- C26
\* C26: a step that answers a DELETE request for a symbol that has a
\* worker leaves no subscription key of the symbol and has published the
\* unsubscribe command of the symbol, whether the key was still there or
\* not.
C26_UnsubscribePublishes ==
    [][(/\ subscription'.deletes # subscription.deletes
        /\ collectors[subscription'.symbol] # Absent) =>
          /\ subscription'.symbol \notin subscription'.keys
          /\ Len(cmd_queue') = Len(cmd_queue) + 1
          /\ cmd_queue'[Len(cmd_queue')].action = "unsubscribe"
          /\ cmd_queue'[Len(cmd_queue')].symbol = subscription'.symbol]_vars

\* -------------------------------------------------------------- metrics
\* The queue length from which metrics_collector separates "healthy" from
\* "degraded", and how far around it the backlog of the model moves.
WarningThreshold == 10000
BacklogWindow == 3

\* metrics_collector, one round: LLEN of both queues, the snapshot is SET
\* under processor_metrics (ex=60).
MetricsCollector ==
    /\ processor_metrics' =
        <<[queue_length |-> Len(candle_queue),
           dlq_length |-> Len(dead_letter_queue),
           status |-> IF Len(candle_queue) < WarningThreshold
                      THEN "healthy" ELSE "degraded"]>>
    /\ UNCHANGED <<pvars, tvars, cvars, svars, rc, backfill, registry,
                   subscription>>

\* A collector pushes a confirmed candle onto the backlog.
BacklogPush ==
    /\ Len(candle_queue) < WarningThreshold + BacklogWindow
    /\ candle_queue' = Append(candle_queue, Envelope(BTC, "4H", T1, SampleA))
    /\ UNCHANGED <<dead_letter_queue, store, next_row_id, bp_pc, batch,
                   dlq_pc, dlq_item, abandoned, tvars, cvars, svars, rvars>>

\* The persister drains the backlog.
BacklogPop ==
    /\ Len(candle_queue) > WarningThreshold - BacklogWindow
    /\ BatchPop \/ BatchRpop

\* The persister is behind by about WarningThreshold candles.
MetricsInit ==
    /\ candle_queue = [i \in 1..WarningThreshold |->
                            Envelope(BTC, "4H", T1, SampleA)]
    /\ dead_letter_queue = <<>>
    /\ store = {}
    /\ next_row_id = 1
    /\ bp_pc = "pop"
    /\ batch = <<>>
    /\ dlq_pc = "pop"
    /\ dlq_item = <<>>
    /\ abandoned = {}
    /\ AutoStarted
    /\ ReconcilerIdle
    /\ trace = <<>>
    /\ replays = 0

MetricsNext ==
    \/ MetricsCollector
    \/ BacklogPush
    \/ BacklogPop
    \/ ProcessBatchCommit

MetricsSpec == MetricsInit /\ [][MetricsNext]_vars

\* ---------------------------------------------------------------- C27
\* C27: the snapshot under processor_metrics says "degraded" exactly when
\* the queue length it reports is greater than 10000, and "healthy"
\* otherwise.
C27_DegradedThreshold ==
    \A i \in 1..Len(processor_metrics) :
        processor_metrics[i].status =
            IF processor_metrics[i].queue_length > WarningThreshold
            THEN "degraded" ELSE "healthy"

\* ------------------------------------------------------ gap-fill scenario
\* A pass over 1h candles: the table holds a valid row for every open time
\* of the last HoursBack + 1 hours except one, which has a row before and
\* a row after it inside the window. The clock reads a full hour or half
\* past it.
ScenarioNows == {(HoursBack + 4) * HourMs,
                 (HoursBack + 4) * HourMs + HourMs \div 2}

GapFillInit ==
    /\ \E now \in ScenarioNows :
        /\ rc = [pc |-> "dedup", now |-> now, gaps |-> <<>>,
                 cooperating |-> TRUE, filled |-> 0,
                 duplicates_removed |-> 0, invalid_fixed |-> 0,
                 timeframe |-> "1h", api_calls_made |-> 0,
                 fetch_start |-> 0]
        /\ \E hole \in GridUpTo("1h", now) :
            /\ hole - IntervalMs("1h") >= now - HoursBack * HourMs
            /\ hole + IntervalMs("1h") <= now
            /\ store = StoreOf([t \in {x \in GridUpTo("1h", now) :
                                    x >= now - (HoursBack + 1) * HourMs} |->
                                IF t = hole THEN "absent" ELSE "valid"])
        /\ next_row_id = now \div IntervalMs("1h") + 2
    /\ candle_queue = <<>> /\ dead_letter_queue = <<>>
    /\ bp_pc = "pop" /\ batch = <<>>
    /\ dlq_pc = "pop" /\ dlq_item = <<>> /\ abandoned = {}
    /\ NotStarted
    /\ trace = <<>>
    /\ replays = 0
    /\ backfill = NoBackfill
    /\ registry = BasicTables
    /\ subscription = NoSubscription
    /\ processor_metrics = <<>>

GapFillNext ==
    \/ RemoveDuplicates
    \/ FixInvalidData
    \/ DetectGaps
    \/ FillDataGapOneBad

GapFillSpec == GapFillInit /\ [][GapFillNext]_vars

\* The open times of the venue inside the window that have no row.
Holes ==
    {t \in GridUpTo(RcTimeframe, rc.now) :
        /\ t >= Cutoff
        /\ ~\E r \in Window : r.timestamp_ms = t}

\* The rows the pass has inserted.
Inserted == {r \in store : r.id >= rc.now \div IntervalMs(RcTimeframe) + 2}

HasRow(ts) == \E r \in Window : r.timestamp_ms = ts

\* ---------------------------------------------------------------- C28
\* C28: with 1h rows at t and t + 2*interval and none at t + interval,
\* the pass detects exactly the gap [t + interval, t + interval], makes
\* exactly one fetch, with since = t, inserts the row the venue returned
\* for t + interval, and ends with rows at t, t + interval and
\* t + 2*interval.
C28_GapFillScenario ==
    /\ rc.pc = "fill" =>
        \E h \in Holes :
            rc.gaps = <<[start_ts |-> h, end_ts |-> h, missing_count |-> 1]>>
    /\ (rc.pc = "done" /\ rc.cooperating) =>
        /\ rc.api_calls_made = 1
        /\ \E r \in Inserted :
            /\ Inserted = {r}
            /\ rc.fetch_start = r.timestamp_ms - IntervalMs(RcTimeframe)
            /\ HasRow(r.timestamp_ms - IntervalMs(RcTimeframe))
            /\ HasRow(r.timestamp_ms + IntervalMs(RcTimeframe))
        /\ Holes = {}

\* ---------------------------------------------------------------- C29
\* The timestamps a gap covers, and the missing timestamps of the window.
GapPoints(g) ==
    {g.start_ts + k * IntervalMs(RcTimeframe) :
        k \in 0..((g.end_ts - g.start_ts) \div IntervalMs(RcTimeframe))}

WindowMissing == Missing(store, RcSymbol, RcTimeframe, Cutoff, rc.now)

Coalesced(gaps, missing) ==
    /\ \A a \in DOMAIN gaps :
        /\ gaps[a].start_ts <= gaps[a].end_ts
        /\ (gaps[a].end_ts - gaps[a].start_ts) % IntervalMs(RcTimeframe) = 0
        /\ GapPoints(gaps[a]) \subseteq missing
        /\ gaps[a].start_ts - IntervalMs(RcTimeframe) \notin missing
        /\ gaps[a].end_ts + IntervalMs(RcTimeframe) \notin missing
        /\ gaps[a].missing_count = Cardinality(GapPoints(gaps[a]))
    /\ \A a, b \in DOMAIN gaps : a < b => gaps[a].end_ts < gaps[b].start_ts
    /\ UNION {GapPoints(gaps[a]) : a \in DOMAIN gaps} = missing
    /\ \A m \in missing :
        (/\ m - IntervalMs(RcTimeframe) \notin missing
         /\ m + IntervalMs(RcTimeframe) \notin missing) =>
            \E a \in DOMAIN gaps :
                gaps[a].start_ts = m /\ gaps[a].end_ts = m

\* C29: the gaps a detection returns are pairwise disjoint and in
\* ascending order, each is a maximal run of missing timestamps one
\* interval apart, together they cover exactly the expected timestamps
\* that are not stored, each missing_count is (end - start)/interval + 1,
\* and a single missing timestamp is a gap with start = end.
C29_GapCoalescing ==
    [][rc.pc = "detect" => Coalesced(rc'.gaps, WindowMissing)]_vars

\* A detection has returned a gap of several timestamps and a gap of one.
C29_Witness ==
    /\ rc.pc = "fill" /\ rc.api_calls_made = 0
    /\ \E a, b \in DOMAIN rc.gaps :
        /\ rc.gaps[a].missing_count >= 3
        /\ rc.gaps[b].start_ts = rc.gaps[b].end_ts

\* ---------------------------------------------------------------- C30
\* C30: whatever the clock reads when a pass runs, the window of its gap
\* detection starts on a multiple of the timeframe's interval, so every
\* gap it returns starts and ends on such a multiple, and no gap covers
\* the open time of a stored candle of the window.
C30_WindowAligned ==
    /\ rc.pc \in {"detect", "fill"} => Cutoff % IntervalMs(RcTimeframe) = 0
    /\ (rc.pc = "fill" /\ rc.api_calls_made = 0) =>
        \A a \in DOMAIN rc.gaps :
            /\ rc.gaps[a].start_ts % IntervalMs(RcTimeframe) = 0
            /\ rc.gaps[a].end_ts % IntervalMs(RcTimeframe) = 0
            /\ \A r \in Window :
                ~(/\ r.timestamp_ms % IntervalMs(RcTimeframe) = 0
                  /\ rc.gaps[a].start_ts <= r.timestamp_ms
                  /\ r.timestamp_ms <= rc.gaps[a].end_ts)

\* ------------------------------------------------------- gap-fill frame
\* A pass over any table, against a venue that may answer one candle of a
\* request without volume, without close or with high below low.
FillSpec == ReconcileInit /\ [][GapFillNext]_vars

\* ---------------------------------------------------------------- C31
\* C31: a gap fill keeps every row that exists, unchanged, and the rows it
\* adds are rows of the gap's symbol and timeframe with a timestamp in
\* [gap.start, gap.end], volume > 0 and close > 0.
C31_FillInsertOnly ==
    [][rc'.api_calls_made = rc.api_calls_made + 1 =>
        /\ store \subseteq store'
        /\ \A r \in store' \ store :
            /\ r.symbol = RcSymbol /\ r.timeframe = RcTimeframe
            /\ Head(rc.gaps).start_ts <= r.timestamp_ms
            /\ r.timestamp_ms <= Head(rc.gaps).end_ts
            /\ r.volume > 0 /\ r.close > 0]_vars

\* A fill of the gap that begins at an unaligned window start has kept a
\* row stored inside the gap, left out the venue's candle before the gap
\* and a candle without volume or close, and inserted others.
C31_Witness ==
    /\ rc.pc = "done" /\ rc.api_calls_made = 1
    /\ rc.fetch_start + IntervalMs(RcTimeframe) = Cutoff
    /\ Cutoff % IntervalMs(RcTimeframe) # 0
    /\ rc.filled >= 1 /\ ~rc.cooperating
    /\ \E r \in Window : r \notin Inserted
    /\ \E t \in GridUpTo(RcTimeframe, rc.now) : t >= Cutoff /\ ~HasRow(t)

\* ------------------------------------------------------- repeated passes
\* The venue holds a valid candle for every open time but answers a
\* request with at most VenuePage candles.
VenuePage == 3

FillDataGapPage ==
    /\ rc.pc = "fill"
    /\ LET gap == Head(rc.gaps)
           all == FetchOHLCV(RcTimeframe,
                             gap.start_ts - IntervalMs(RcTimeframe),
                             rc.now, <<>>)
       IN FillWithData(gap, SubSeq(all, 1, Min(Len(all), VenuePage)), TRUE)
    /\ UNCHANGED <<candle_queue, dead_letter_queue, bp_pc, batch, dlq_pc,
                   dlq_item, abandoned, tvars, cvars, svars, backfill,
                   registry, subscription, processor_metrics>>

\* The next scheduled run: a new process, a new MaintenanceStats and a
\* clock that has not gone back.
NextPass ==
    /\ rc.pc = "done"
    /\ \E now \in {n \in Nows : n >= rc.now} :
        rc' = [rc EXCEPT !.pc = "dedup", !.now = now, !.gaps = <<>>,
                         !.filled = 0, !.duplicates_removed = 0,
                         !.invalid_fixed = 0, !.api_calls_made = 0,
                         !.fetch_start = 0]
    /\ UNCHANGED <<pvars, tvars, cvars, svars, backfill, registry,
                   subscription, processor_metrics>>

ConvergeNext ==
    \/ RemoveDuplicates
    \/ FixInvalidData
    \/ DetectGaps
    \/ FillDataGapPage
    \/ NextPass

ConvergeSpec == ReconcileInit /\ [][ConvergeNext]_vars

\* ---------------------------------------------------------------- C32
\* C32: with a venue that holds every candle and answers in pages, every
\* gap fill keeps the rows that exist and leaves fewer timestamps of the
\* window missing than it found, so that the passes that follow report
\* only what remains and, after finitely many fills, nothing.
C32_PartialFillConverges ==
    [][rc'.api_calls_made = rc.api_calls_made + 1 =>
        /\ store \subseteq store'
        /\ Cardinality(WindowMissing') < Cardinality(WindowMissing)]_vars

\* ---------------------------------------------------------------- C33
\* A candle array that process_candle_data has to enqueue: nine fields,
\* confirmed, every field a number, volume and close positive.
WellFormed(cd) ==
    /\ Len(cd) = 9 /\ cd[9] = "1"
    /\ \A i \in 1..7 : cd[i] # NonNumeric
    /\ cd[6] > 0 /\ cd[5] > 0

\* C33: whenever candles of an event leave the worker's list, each of
\* them that is confirmed and valid has been pushed onto the candle
\* queue, whatever malformed candle the event holds before or after it.
C33_MalformedSkippedOneByOne ==
    [][worker[1].inbox # <<>> /\ worker'[1].inbox # worker[1].inbox =>
        \A i \in 1..(Len(worker[1].inbox) - Len(worker'[1].inbox)) :
            WellFormed(worker[1].inbox[i]) =>
                \E j \in (Len(candle_queue) + 1)..Len(candle_queue') :
                    /\ candle_queue'[j].timestamp = worker[1].inbox[i][1]
                    /\ candle_queue'[j].close = worker[1].inbox[i][5]
                    /\ candle_queue'[j].volume = worker[1].inbox[i][6]]_vars

\* ------------------------------------------------------- broker failure
\* process_candle_data: the LPUSH of a validated candle raises (the broker
\* does not answer); the exception is caught around the loop, the candle
\* and the rest of the event are dropped, the worker goes on listening.
LpushFail(w) ==
    /\ worker[w].pc = "listening"
    /\ ~worker[w].cancel
    /\ worker[w].inbox # <<>>
    /\ CandleVerdict(worker[w].symbol, worker[w].channel,
                     Head(worker[w].inbox)).kind = "push"
    /\ worker' = [worker EXCEPT ![w].inbox = <<>>]
    /\ UNCHANGED <<msgs_sent, log_skipped, produced, pvars, tvars, svars,
                   rvars>>

\* The broker is out of reach while the first message is processed and
\* works from then on; an event holds at most one candle to push.
TransientLpushFail == msgs_sent = 1 /\ LpushFail(1)

PushNext ==
    \/ Next
    \/ TransientLpushFail

PushSpec == Init /\ [][PushNext]_vars

\* ---------------------------------------------------------------- C34
\* C34: with a broker that fails one push and works afterwards, a
\* validated candle at the head of the worker's list leaves the list only
\* when it has been pushed onto the candle queue, and the worker stays
\* connected and listening.
C34_PushRetried ==
    [][(/\ worker[1].inbox # <<>>
        /\ WellFormed(Head(worker[1].inbox))
        /\ worker'[1].inbox # worker[1].inbox) =>
            /\ Len(candle_queue') = Len(candle_queue) + 1
            /\ candle_queue'[Len(candle_queue')].timestamp =
                    Head(worker[1].inbox)[1]
            /\ worker'[1].pc = "listening" /\ worker'[1].sock_open]_vars


\* ------------------------------------------------------ venue failure
\* exchange.fetch_ohlcv raises (a timeout, a 5xx, a 429): the except of
\* fetch_historical_ohlcv logs, counts the error and returns the empty
\* list, which the while loop of backfill_symbol_timeframe reads as a
\* page without data: it breaks and the status becomes "completed".
BackfillFetchError(i) ==
    /\ i \in Tasks
    /\ backfill.task[i].pc = "fetch"
    /\ LET r == backfill.task[i]
           b == [backfill EXCEPT
                    !.total_errors = @ + 1,
                    !.task[i].fetches = @ + 1,
                    !.task[i].since_log = Append(@, r.current_since),
                    !.task[i].ohlcv_data = <<>>]
       IN backfill' = CompleteTimeframe(b, i)
    /\ UNCHANGED <<pvars, tvars, cvars, svars, rc, registry, subscription,
                   processor_metrics>>

\* The pagination against a venue that answers with any ascending page
\* of its candles, the empty one included, and whose fetches may fail.
FetchFailNext ==
    \/ BackfillTaskStart(1)
    \/ BackfillRangeDone(1)
    \/ BackfillFetchDone(1, FALSE)
    \/ BackfillFetchError(1)
    \/ BackfillInsertDone(1)
    \/ BackfillSleepDone(1)

FetchFailSpec == PaginateInit /\ [][FetchFailNext]_vars

\* ---------------------------------------------------------------- C35
\* C35: a fetch that fails is not taken for the end of the data: a
\* (symbol, timeframe) backfill becomes "completed" only in a step in
\* which no fetch failed, with since at the end of the range or with an
\* empty page that the venue returned.
C35_FailureNotEndOfData ==
    [][LeavesLoop =>
        /\ backfill'.total_errors = backfill.total_errors
        /\ \/ PageTask'.current_since >= PageTask.end_ts
           \/ PageTask'.ohlcv_data = <<>>]_vars


\* --------------------------------------------------- timeframe seconds
\* A timeframe name as the sequence of its characters, up to MaxNameLen
\* of them, over digits, the three unit letters, a lower-case unit, a
\* letter that is no unit and a sign.
MaxNameLen == 3
NameChars == {"0", "1", "5", "m", "H", "D", "h", "x", "-"}
TimeframeNames == {<<>>} \cup SeqsUpTo(NameChars, MaxNameLen)

Digits == <<"0", "1", "2", "3", "4", "5", "6", "7", "8", "9">>
IsDigit(c) == \E i \in DOMAIN Digits : Digits[i] = c
DigitValue(c) == (CHOOSE i \in DOMAIN Digits : Digits[i] = c) - 1

RECURSIVE DecimalValue(_)
DecimalValue(s) ==
    IF s = <<>> THEN 0
    ELSE DecimalValue(SubSeq(s, 1, Len(s) - 1)) * 10 + DigitValue(s[Len(s)])

\* int(s) of Python on a string of NameChars: an optional sign and then
\* one or more digits; anything else raises ValueError.
PyInt(s) ==
    LET signed == s # <<>> /\ s[1] = "-"
        body == IF signed THEN Tail(s) ELSE s
    IN IF body = <<>> \/ \E i \in DOMAIN body : ~IsDigit(body[i])
       THEN [raised |-> TRUE, value |-> 0]
       ELSE [raised |-> FALSE,
             value |-> IF signed THEN 0 - DecimalValue(body)
                       ELSE DecimalValue(body)]

EndsWith(s, c) == s # <<>> /\ s[Len(s)] = c

Times(r, k) == [r EXCEPT !.value = @ * k]

\* parse_timeframe_seconds(timeframe)
parse_timeframe_seconds(timeframe) ==
    LET n == PyInt(SubSeq(timeframe, 1, Len(timeframe) - 1))
    IN IF EndsWith(timeframe, "m") THEN Times(n, 60)
       ELSE IF EndsWith(timeframe, "H") THEN Times(n, 3600)
       ELSE IF EndsWith(timeframe, "D") THEN Times(n, 86400)
       ELSE [raised |-> FALSE, value |-> 60]

\* process_batch meets an item whose timeframe has no row in timeframes:
\* the name is parsed and the row (name, seconds) is inserted; an
\* exception of the parse aborts the transaction and the batch goes to
\* the dead letter queue with the error.
RegisterTimeframe ==
    /\ bp_pc = "process"
    /\ batch # <<>>
    /\ LET timeframe == Head(batch)
           tf_seconds == parse_timeframe_seconds(timeframe)
       IN IF tf_seconds.raised
          THEN /\ dead_letter_queue' = Append(dead_letter_queue,
                        [timeframe |-> timeframe, error |-> "ValueError",
                         retry_count |-> 1])
               /\ registry' = registry
          ELSE /\ registry' = [registry EXCEPT !.timeframes = @ \cup
                        {[name |-> timeframe, seconds |-> tf_seconds.value]}]
               /\ dead_letter_queue' = dead_letter_queue
    /\ batch' = <<>>
    /\ bp_pc' = "pop"
    /\ UNCHANGED <<candle_queue, store, next_row_id, dlq_pc, dlq_item,
                   abandoned, tvars, cvars, svars, rc, backfill,
                   subscription, processor_metrics>>

\* One item of a timeframe that the table timeframes, empty here, does
\* not have; the batch is reduced to the name of the timeframe.
TimeframeInit ==
    /\ batch \in {<<tf>> : tf \in TimeframeNames}
    /\ bp_pc = "process"
    /\ registry = [symbols |-> {}, timeframes |-> {}]
    /\ candle_queue = <<>>
    /\ dead_letter_queue = <<>>
    /\ store = {}
    /\ next_row_id = 1
    /\ dlq_pc = "pop"
    /\ dlq_item = <<>>
    /\ abandoned = {}
    /\ trace = <<>>
    /\ replays = 0
    /\ NotStarted
    /\ rc = [pc |-> "off", now |-> 0, gaps |-> <<>>, cooperating |-> TRUE,
             filled |-> 0, duplicates_removed |-> 0, invalid_fixed |-> 0,
             timeframe |-> "4h", api_calls_made |-> 0, fetch_start |-> 0]
    /\ backfill = NoBackfill
    /\ subscription = NoSubscription
    /\ processor_metrics = <<>>

TimeframeNext == RegisterTimeframe

TimeframeSpec == TimeframeInit /\ [][TimeframeNext]_vars

\* ---------------------------------------------------------------- C36
\* "<n><unit>" with n a positive integer in decimal and the unit one of
\* m, H, D.
UnitSeconds(c) == IF c = "m" THEN 60 ELSE IF c = "H" THEN 3600 ELSE 86400

Count(name) == SubSeq(name, 1, Len(name) - 1)

IsCountAndUnit(name) ==
    /\ Len(name) >= 2
    /\ name[Len(name)] \in {"m", "H", "D"}
    /\ \A i \in DOMAIN Count(name) : IsDigit(Count(name)[i])
    /\ DecimalValue(Count(name)) > 0

SpecifiedSeconds(name) ==
    IF IsCountAndUnit(name)
    THEN DecimalValue(Count(name)) * UnitSeconds(name[Len(name)])
    ELSE 60

Deleted == store \ store'

\* C37: the dedup and the purge of a pass delete a row only if it is a
\* row of the pass's symbol and timeframe from the cutoff on that either
\* shares its key with a row of smaller id or violates a price or volume
\* rule; they insert and change nothing.
C37_DeletionFrame ==
    [][rc.pc \in {"dedup", "purge"} =>
        /\ store' \subseteq store
        /\ \A r \in Deleted :
            /\ r.symbol = RcSymbol
            /\ r.timeframe = RcTimeframe
            /\ r.timestamp_ms >= rc.now - HoursBack * HourMs
            /\ \/ \E q \in store : RowKey(q) = RowKey(r) /\ q.id < r.id
               \/ Invalid(r)]_vars

\* Both steps have deleted rows, and the duplicates before the cutoff,
\* those of the other timeframe and the rows of the other symbol are
\* still in the table.
C37_Witness ==
    /\ rc.pc = "detect"
    /\ rc.duplicates_removed >= 1
    /\ rc.invalid_fixed >= 1
    /\ {8, 9, 13, 14, 16, 17} \subseteq {r.id : r \in store}
    /\ \A r \in store : r.id \notin {11, 12}


\* ----------------------------------------------------- no failed upsert
\* The auto-started worker and the batch loop with every transaction
\* committing: nothing reaches the dead letter queue.
OrderNext ==
    \/ TaskStart(1)
    \/ ConnectOK(1)
    \/ StatusConnectedDone(1)
    \/ SendOK(1)
    \/ ReceiveMessage(1, MaxReconnects)
    \/ ProcessCandle(1)
    \/ BatchPop
    \/ BatchRpop
    \/ BatchTimeout
    \/ ProcessBatchCommit

OrderSpec == Init /\ [][OrderNext]_vars

\* ---------------------------------------------------------------- C38
Ohlcv(e) == <<e.open, e.high, e.low, e.close, e.volume>>

\* The envelopes that are enqueued and not yet written, oldest first.
Pending == batch \o candle_queue

\* The OHLCV a key will have once Pending is written: that of its last
\* pending envelope, else that of its row.
Effective(k) ==
    LET at == {i \in DOMAIN Pending : KeyOf(Pending[i]) = k}
    IN IF at # {}
       THEN {Ohlcv(Pending[CHOOSE i \in at : \A j \in at : j <= i])}
       ELSE {Ohlcv(r) : r \in {q \in store : RowKey(q) = k}}

Enqueued == Len(candle_queue') = Len(candle_queue) + 1

\* C38: an enqueue appends the worker's next candle to the queue and a
\* pop takes its oldest element into the batch, a key has one row at
\* most, and no step other than the enqueue of a key changes what the
\* key will hold: so with the queue drained every key's row carries the
\* OHLCV of the envelope enqueued last for it.
C38_LastEnqueuedWins ==
    /\ [](\A r, q \in store : RowKey(r) = RowKey(q) => r = q)
    /\ [][Enqueued =>
            LET cd == Head(worker[1].inbox)
                e == candle_queue'[Len(candle_queue')]
            IN /\ SubSeq(candle_queue', 1, Len(candle_queue)) = candle_queue
               /\ e.timestamp = cd[1]
               /\ Ohlcv(e) = <<cd[2], cd[3], cd[4], cd[5], cd[6]>>
               /\ worker'[1].inbox = Tail(worker[1].inbox)
               /\ batch' = batch /\ store' = store]_vars
    /\ [][(candle_queue' # candle_queue /\ ~Enqueued) =>
            Pending' = Pending /\ store' = store]_vars
    /\ [][\A k \in {KeyOf(e) : e \in produced'} :
            Effective(k)' =
                IF Enqueued /\ KeyOf(candle_queue'[Len(candle_queue')]) = k
                THEN {Ohlcv(candle_queue'[Len(candle_queue')])}
                ELSE Effective(k)]_vars

\* The queue is drained after two envelopes of one key were enqueued, the
\* second one with other values, and the row holds the second.
C38_Witness ==
    /\ Pending = <<>>
    /\ bp_pc = "pop"
    /\ \E a, b \in produced :
        /\ KeyOf(a) = KeyOf(b) /\ Ohlcv(a) # Ohlcv(b)
        /\ \E r \in store : RowKey(r) = KeyOf(b) /\ Ohlcv(r) # Ohlcv(SampleA)


\* ---------------------------------------------------------------- C39
\* len([k for k in collectors.keys() if not k.endswith('_task')])
active_collectors ==
    Cardinality({k \in Keys : collectors[k] # Absent /\ ~EndsWithTask(k)})

\* C39: after a completed command, every symbol has a collector under its
\* name exactly when the dict has the run task of that collector under
\* the name followed by "_task", the task of every collector of the dict
\* is alive, and active_collectors is the number of running workers.
C39_MapPairing ==
    sup.last.action # "none" =>
        /\ \A s \in Symbols :
            /\ collectors[s].kind = "collector" <=>
                    /\ collectors[TaskKey(s)].kind = "task"
                    /\ worker[collectors[TaskKey(s)].id].symbol = s
            /\ collectors[s].kind = "collector" =>
                    /\ collectors[TaskKey(s)].id = collectors[s].id
                    /\ Live(collectors[s].id)
        /\ active_collectors = Cardinality({w \in Workers : Live(w)})


\* ------------------------------------------------ the listening connection
\* What may be published on collector:<symbol>: the two commands and a
\* payload that json.loads rejects.
ListenerCommands ==
    Commands \cup [action : {"malformed"}, symbol : {BTC},
                   timeframes : {DEFAULT_TIMEFRAMES}]

PublishAny == PublishFrom(ListenerCommands, FewCommands)

\* subscription_listener: json.loads raises on the message; the except
\* inside the loop logs and the loop goes on with the next message.
SupSkip ==
    /\ sup.pc = "next" \/ (sup.pc = "waiting" /\ NoCreated)
    /\ ~sup.shutdown
    /\ cmd_queue # <<>>
    /\ Head(cmd_queue).action \notin {"subscribe", "unsubscribe"}
    /\ cmd_queue' = Tail(cmd_queue)
    /\ sup' = [sup EXCEPT !.pc = "next",
                !.last = Finished(Head(cmd_queue),
                                  WorkersOf(Head(cmd_queue).symbol))]
    /\ UNCHANGED <<collectors, pvars, tvars, cvars, rvars>>

\* pubsub.listen() raises (the connection to Redis is reset, a read times
\* out): the exception leaves the "async for", the except at the end of
\* subscription_listener logs "Subscription listener failed" and the task
\* ends.  main() does not start it again, so what is buffered or published
\* from then on is read by nobody.
ListenFail ==
    /\ sup.pc = "next" \/ (sup.pc = "waiting" /\ NoCreated)
    /\ ~sup.shutdown
    /\ sup' = [sup EXCEPT !.pc = "ended"]
    /\ UNCHANGED <<collectors, cmd_queue, pvars, tvars, cvars, rvars>>

\* The tasks of the event loop: the listener and the run tasks.
ListenerStep ==
    \/ SupWait
    \/ SupTake
    \/ SupSkip
    \/ SupInitDone
    \/ SupInitFail
    \/ SupStopCloseDone
    \/ SupStopStatusDone
    \/ SupAwaitDone
    \/ \E w \in Workers :
        \/ TaskStart(w)
        \/ ConnectOK(w)
        \/ StatusConnectedDone(w)
        \/ SendOK(w)
        \/ ListenEnd(w, SupReconnects)
        \/ CloseDone(w, SupReconnects)
        \/ SleepDone(w)
        \/ Cancelled(w)

ListenerNext ==
    \/ PublishAny
    \/ ListenFail
    \/ ListenerStep

ListenerSpec == SupervisorInit /\ [][ListenerNext]_vars

\* The event loop resumes a task whose await is over.
ListenerLiveSpec == ListenerSpec /\ WF_vars(ListenerStep)

\* ---------------------------------------------------------------- C40
\* A command is buffered on the connection or the listener is at work on
\* one.
Outstanding == cmd_queue # <<>> \/ sup.pc \notin {"next", "waiting"}

\* C40: every command published before shutdown is eventually taken by
\* the listener and worked off, also after a malformed command and after
\* an error on the listening connection.
C40_CommandsApplied == Outstanding ~> ~Outstanding
====
